---- MODULE Spec2Model ----
(***************************************************************************)
(* Memory subsystem of the SysControl kernel: the bitmap frame allocator   *)
(* (memory/frame_allocator), the 4-level page tables (memory/paging) and   *)
(* the linked-list heap allocator (memory/heap).                           *)
(*                                                                         *)
(* TLC integers are 32 bits wide.  Physical addresses and frame numbers    *)
(* are written as they are.  A virtual page number (36 bits) is written as *)
(* the tuple <<p4, p3, p2, p1>> of its four 9-bit table indices, and a     *)
(* heap virtual address as the integer HEAP_OFFSET + offset, where         *)
(* HEAP_OFFSET stands for 0xFFFFFFFE80000000 (page p4=511, p3=506, p2=0,   *)
(* p1=0) in a window that fits TLC's integers.                             *)
(***************************************************************************)
EXTENDS Integers, Sequences, FiniteSets, TLC

\* ------------------------------------------------------------------ bounds
\* max_memory_amount handed to LinkedListHeapAllocator::new (lib.rs: MAX_HEAP)
MaxMemoryAmount == 8192
\* number of alloc calls in one run
MaxAllocs == 4
\* physical frames of the machine the heap runs on
HeapMachineFrames == 16
\* complete frames of the machine whose bitmap is exercised call by call
BitmapMachineFrames == 10
\* number of areas in a generated boot memory map
MaxAreas == 3
\* number of p4_map calls in one run of the page tables
MaxMaps == 3
\* number of allocs in one run of kernel_main
MaxBootAllocs == 2
\* number of interrupts in one run, and of allocs in a run with interrupts
MaxInterrupts == 2
MaxInterruptAllocs == 3

\* calls of alloc and dealloc made by the concurrent callers together
MaxSmpCalls == 3

\* --------------------------------------------------------------- constants
FRAME_SIZE == 4096
LIST_HEAP_NODE_SIZE == 17
HEAP_OFFSET == 1048576
ENTRY_COUNT == 512
RECURSIVE_INDEX == 511
HEAP_P3_INDEX == 506
\* 0xb8000, the address of the VGA text buffer
VGA_ADDRESS == 753664
\* KERNEL_OFFSET / FRAME_SIZE has index 510 in the table of level 3
KERNEL_P3_INDEX == 510

\* layout.size() values handed to alloc
AllocSizes == {8, 256, 4000}

\* &inner.holes: the sentinel is a field of the static ALLOCATOR, which lives
\* in the kernel image above KERNEL_OFFSET = HEAP_OFFSET + MAX_HEAP
SentinelAddr == HEAP_OFFSET + MaxMemoryAmount + FRAME_SIZE

VARIABLES
    frame_allocator,     \* BitMapFrameAllocator record (slice = the bitmap bytes)
    tables,              \* physical frame number -> entries of the table stored there
    p4_frame,            \* frame of the new top-level table (kernel_main: p4_frame)
    heap_mem,            \* address -> ListHeapNode stored at that address
    max_currently_used,  \* LinkedListHeapAllocatorInner.max_currently_used
    live,                \* blocks handed out by alloc and not yet freed
    hist,                \* the last allocator calls, newest last
    scen,                \* progress through "three allocs of 256, then free A, B, C"
    nallocs,             \* number of alloc calls made
    memory_map,          \* the boot memory map (stivale_struct.memory_map())
    fa_call,             \* the last call of the frame allocator and its result
    panic,               \* "" or the message of the panic that halted the kernel
    pc,                  \* the statement of kernel_main the kernel has reached
    cr3_reg,             \* frame in CR3; NoFrame: the bootloader's tables
    map_call,            \* the last p4_map call
    cpu                  \* the two spinlocks, and where the interrupted code and
                         \* an interrupt handler stand in their allocator calls

vars == <<frame_allocator, tables, p4_frame, heap_mem, max_currently_used,
          live, hist, scen, nallocs, memory_map, fa_call, panic,
          pc, cr3_reg, map_call, cpu>>

\* what the allocator calls taken as a whole leave alone
boot_vars == <<pc, cr3_reg, map_call, cpu>>

\* the state of the heap allocator
heap_vars == <<heap_mem, max_currently_used, live, hist, scen, nallocs>>

\* ------------------------------------------------------------------- utils
ceil_div_usize(a, b) == (a + b - 1) \div b

Max(a, b) == IF a >= b THEN a ELSE b

\* the only element of a one-element set; {F(x) : x \in {v}} is F applied to
\* the value of v, with v evaluated once: the steps of a function body in order
The(S) == CHOOSE r \in S : TRUE

RECURSIVE Pow2(_)
Pow2(i) == IF i = 0 THEN 1 ELSE 2 * Pow2(i - 1)

\* bit i of byte b
BitOf(b, i) == (b \div Pow2(i)) % 2

\* u8::trailing_zeros, the count of the clear low bits
RECURSIVE trailing_zeros(_)
trailing_zeros(b) == IF b = 0 THEN 8 ELSE IF b % 2 = 0 THEN 1 + trailing_zeros(b \div 2) ELSE 0

\* u8::trailing_ones
RECURSIVE trailing_ones(_)
trailing_ones(b) == IF b % 2 = 1 THEN 1 + trailing_ones(b \div 2) ELSE 0

\* --------------------------------------------------- memory/frame_allocator
NoFrame == 0 - 1

\* mark_frame clearing with the mask 1 << bit_index instead of its complement
mark_frame_unnegated_mask(fa, frame, allocated) ==
    IF frame > fa.memory_end
    THEN [fa |-> fa, panic |-> "Cannot mark region above memory end as allocated."]
    ELSE LET byte == frame \div 8
             bit_index == frame % 8
         IN IF byte >= fa.bitmap_size_in_bytes
            THEN [fa |-> fa, panic |-> "index out of bounds"]
            ELSE LET old == fa.slice[byte]
                     new == IF allocated
                            THEN IF BitOf(old, bit_index) = 1 THEN old
                                 ELSE old + Pow2(bit_index)
                            ELSE BitOf(old, bit_index) * Pow2(bit_index)
                 IN [fa |-> [fa EXCEPT !.slice[byte] = new], panic |-> ""]

\* BitMapFrameAllocator::mark_frame: [fa, panic]
mark_frame(fa, frame, allocated) ==
    IF frame > fa.memory_end
    THEN [fa |-> fa, panic |-> "Cannot mark region above memory end as allocated."]
    ELSE LET byte == frame \div 8
             bit_index == frame % 8
         IN IF byte >= fa.bitmap_size_in_bytes
            THEN [fa |-> fa, panic |-> "index out of bounds"]
            ELSE LET old == fa.slice[byte]
                     new == IF allocated
                            THEN IF BitOf(old, bit_index) = 1 THEN old
                                 ELSE old + Pow2(bit_index)
                            ELSE IF BitOf(old, bit_index) = 1
                                 THEN old - Pow2(bit_index) ELSE old
                 IN [fa |-> [fa EXCEPT !.slice[byte] = new], panic |-> ""]

\* the loop of mark_region over the frames i .. frame_end - 1: mark_frame on
\* each in ascending order, stopping at the first panic (the range is split in
\* two so that the evaluation nests only logarithmically deep)
RECURSIVE mark_frames(_, _, _, _)
mark_frames(fa, i, frame_end, allocated) ==
    IF i >= frame_end THEN [fa |-> fa, panic |-> ""]
    ELSE IF frame_end - i = 1 THEN mark_frame(fa, i, allocated)
    ELSE The({ IF r.panic # "" THEN r
               ELSE mark_frames(r.fa, i + (frame_end - i) \div 2, frame_end, allocated)
               : r \in {mark_frames(fa, i, i + (frame_end - i) \div 2, allocated)} })

\* BitMapFrameAllocator::mark_region
mark_region(fa, start, end, allocated) ==
    mark_frames(fa, start \div FRAME_SIZE, ceil_div_usize(end, FRAME_SIZE), allocated)

\* BitMapFrameAllocator::clear_bitmap
clear_bitmap(fa) ==
    [fa EXCEPT !.slice = [i \in 0 .. (fa.bitmap_size_in_bytes - 1) |-> 0]]

\* the scan of allocate_frame for a non-full byte: the byte index, or NoFrame
\* for None; a slice of length 0 is indexed out of bounds
RECURSIVE non_full_byte(_, _)
non_full_byte(fa, byte) ==
    IF fa.slice[byte] = 255
    THEN IF byte + 1 >= fa.bitmap_size_in_bytes THEN NoFrame
         ELSE non_full_byte(fa, byte + 1)
    ELSE byte

\* allocate_frame without the test of the index against frames_amount
allocate_frame_unbounded(fa) ==
    IF fa.bitmap_size_in_bytes = 0
    THEN [fa |-> fa, frame |-> NoFrame, panic |-> "index out of bounds"]
    ELSE LET byte == non_full_byte(fa, 0)
         IN IF byte = NoFrame
            THEN [fa |-> fa, frame |-> NoFrame, panic |-> ""]
            ELSE LET index == byte * 8 + trailing_ones(fa.slice[byte])
                     r == mark_frame(fa, index, TRUE)
                 IN [fa |-> r.fa, frame |-> index, panic |-> r.panic]

\* FrameAllocator::allocate_frame: [fa, frame, panic], frame = NoFrame for None
allocate_frame(fa) ==
    IF fa.bitmap_size_in_bytes = 0
    THEN [fa |-> fa, frame |-> NoFrame, panic |-> "index out of bounds"]
    ELSE LET byte == non_full_byte(fa, 0)
         IN IF byte = NoFrame
            THEN [fa |-> fa, frame |-> NoFrame, panic |-> ""]
            ELSE LET index == byte * 8 + trailing_ones(fa.slice[byte])
                 IN IF index >= fa.frames_amount
                    THEN [fa |-> fa, frame |-> NoFrame, panic |-> ""]
                    ELSE LET r == mark_frame(fa, index, TRUE)
                         IN [fa |-> r.fa, frame |-> index, panic |-> r.panic]

\* FrameAllocator::deallocate_frame: [fa, panic]
deallocate_frame(fa, number) == mark_frame(fa, number, FALSE)

\* frame f is marked allocated in the bitmap (f within the slice)
FrameBit(fa, f) == BitOf(fa.slice[f \div 8], f % 8)

\* a memory map entry (stivale MemoryMapEntry): [start, end, type]
Area(start, end, type) == [start |-> start, end |-> end, type |-> type]

\* max_by end_address over the areas
RECURSIVE MaxEnd(_, _)
MaxEnd(areas, k) ==
    IF k > Len(areas) THEN 0 ELSE Max(areas[k].end, MaxEnd(areas, k + 1))

\* new, the search "while !found" from area k on: the frame the bitmap is put
\* at, NoFrame when the areas run out
RECURSIVE FindBitmapFrame(_, _, _)
FindBitmapFrame(areas, k, continuous_frames_amount) ==
    LET tested_mem_area == areas[k]
        tested_frame == ceil_div_usize(tested_mem_area.start, FRAME_SIZE)
    IN IF \/ tested_mem_area.type # "Usable"
          \/ (tested_frame + continuous_frames_amount + 1) * FRAME_SIZE
                > tested_mem_area.start + (tested_mem_area.end - tested_mem_area.start)
       THEN IF k < Len(areas)
            THEN FindBitmapFrame(areas, k + 1, continuous_frames_amount)
            ELSE NoFrame
       ELSE tested_frame

\* new without "mark unavailable memory regions as allocated"
MarkUnusableSkipped(fa, areas, k) == [fa |-> fa, panic |-> ""]

\* new, "mark unavailable memory regions as allocated" from area k on
RECURSIVE MarkUnusable(_, _, _)
MarkUnusable(fa, areas, k) ==
    IF k > Len(areas) THEN [fa |-> fa, panic |-> ""]
    ELSE IF areas[k].type = "Usable" THEN MarkUnusable(fa, areas, k + 1)
    ELSE The({ IF r.panic # "" THEN r ELSE MarkUnusable(r.fa, areas, k + 1)
               : r \in {mark_region(fa, areas[k].start, areas[k].end, TRUE)} })

\* new, "mark non-present memory regions as allocated": the gap before area k
RECURSIVE MarkGaps(_, _, _)
MarkGaps(fa, areas, k) ==
    IF k > Len(areas) THEN [fa |-> fa, panic |-> ""]
    ELSE The({ IF r.panic # "" THEN r ELSE MarkGaps(r.fa, areas, k + 1)
               : r \in {mark_region(fa, areas[k - 1].end, areas[k].start, TRUE)} })

\* new without "mark region used by bitmap"
MarkInitialBitmapUnmarked(allocator, areas) ==
    The({ IF u.panic # "" THEN u ELSE MarkGaps(u.fa, areas, 2)
          : u \in {MarkUnusable(clear_bitmap(allocator), areas, 1)} })

\* new, from "clear leftover stuff" on, for the allocator built around the
\* bitmap placed at tested_frame
MarkInitial(allocator, areas) ==
    The({ IF b.panic # "" THEN b
          ELSE The({ IF u.panic # "" THEN u ELSE MarkGaps(u.fa, areas, 2)
                     : u \in {MarkUnusable(b.fa, areas, 1)} })
          : b \in {mark_region(clear_bitmap(allocator),
                               allocator.bitmap_frame * FRAME_SIZE,
                               allocator.bitmap_frame * FRAME_SIZE
                                  + allocator.bitmap_size_in_bytes, TRUE)} })

\* the allocator before construction
NoAllocator ==
    [bitmap_frame |-> 0, bitmap_size_in_bytes |-> 0, bitmap_size_in_frames |-> 0,
     frames_amount |-> 0, memory_end |-> 0, slice |-> <<>>]

\* BitMapFrameAllocator::new(areas): [fa, panic]
new(areas) ==
    LET memory_end == MaxEnd(areas, 1)
        frames_amount == memory_end \div FRAME_SIZE
        bitmap_length_in_bytes == ceil_div_usize(frames_amount, 8)
        continuous_frames_amount == ceil_div_usize(bitmap_length_in_bytes, FRAME_SIZE)
        tested_frame == FindBitmapFrame(areas, 1, continuous_frames_amount)
    IN IF tested_frame = NoFrame
       THEN [fa |-> NoAllocator,
             panic |-> "Could not find sufficiently big memory region to allocate bitmap."]
       ELSE MarkInitial([frames_amount |-> frames_amount,
                         bitmap_frame |-> tested_frame,
                         bitmap_size_in_bytes |-> bitmap_length_in_bytes,
                         bitmap_size_in_frames |-> continuous_frames_amount,
                         memory_end |-> memory_end,
                         slice |-> <<>>], areas)

\* ------------------------------------------------------------ memory/paging
\* A machine m is [fa, tables, cr3, panic]: the frame allocator, the contents
\* of the frames that hold page tables, the top-level table the MMU walks.
\* A table is the function from its used indices to entries; an index outside
\* its domain is an unused (zero) entry.  An entry is [address, flags].
EmptyTable == [i \in {} |-> 0]

\* PageInfo::from_number for a page number below 2^31
PageOfNumber(n) ==
    <<(n \div 134217728) % ENTRY_COUNT, (n \div 262144) % ENTRY_COUNT,
      (n \div ENTRY_COUNT) % ENTRY_COUNT, n % ENTRY_COUNT>>

\* PageInfo::from_number(base + i) for a page number written by its indices
PageAdd(base, i) ==
    LET n1 == base[4] + i
        n2 == base[3] + (n1 \div ENTRY_COUNT)
        n3 == base[2] + (n2 \div ENTRY_COUNT)
        n4 == base[1] + (n3 \div ENTRY_COUNT)
    IN <<n4 % ENTRY_COUNT, n3 % ENTRY_COUNT, n2 % ENTRY_COUNT, n1 % ENTRY_COUNT>>

p4_index(page) == page[1]
p3_index(page) == page[2]
p2_index(page) == page[3]
p1_index(page) == page[4]

\* Entry::is_unused of entry index of the table in frame t
is_unused(tbls, t, index) == index \notin DOMAIN tbls[t]

\* Entry::write
EntryWrite(tbls, t, index, address, flags) ==
    [tbls EXCEPT ![t] = (index :> [address |-> address, flags |-> flags]) @@ @]

\* Entry::pointed_frame: the frame number, NoFrame for None
pointed_frame(tbls, t, index) ==
    IF index \in DOMAIN tbls[t] /\ "PRESENT" \in tbls[t][index].flags
    THEN tbls[t][index].address \div FRAME_SIZE
    ELSE NoFrame

\* the MMU's walk of one level from the table in frame t
WalkLevel(tbls, t, index) ==
    IF t = NoFrame \/ t \notin DOMAIN tbls THEN NoFrame
    ELSE pointed_frame(tbls, t, index)

\* the frame the MMU reaches for page, walking from the table in cr3
Translate(tbls, cr3, page) ==
    WalkLevel(tbls, WalkLevel(tbls, WalkLevel(tbls, WalkLevel(tbls, cr3,
        page[1]), page[2]), page[3]), page[4])

\* the p1 entry the MMU uses for page: [found, entry]
P1Entry(tbls, cr3, page) ==
    LET t == WalkLevel(tbls, WalkLevel(tbls, WalkLevel(tbls, cr3,
                 page[1]), page[2]), page[3])
    IN IF t = NoFrame \/ t \notin DOMAIN tbls \/ page[4] \notin DOMAIN tbls[t]
       THEN [found |-> FALSE, entry |-> [address |-> 0, flags |-> {}]]
       ELSE [found |-> TRUE, entry |-> tbls[t][page[4]]]

\* virtual page of the top-level table under the recursive mapping
\* (0xFFFFFFFF_FFFFF000, lib.rs)
RecursiveP4 == <<RECURSIVE_INDEX, RECURSIVE_INDEX, RECURSIVE_INDEX, RECURSIVE_INDEX>>

\* (table_address << 9) | (index << 12), on the page of the table
RecNext(tbl, index) == <<tbl[2], tbl[3], tbl[4], index>>

\* the frame that holds the table a reference denotes: a reference is a frame
\* (Identity: the physical address is the pointer) or a virtual page (Recursive)
TableFrame(m, access, tbl) ==
    IF access = "Identity" THEN tbl ELSE Translate(m.tables, m.cr3, tbl)

\* EntryTable::next_entry_address_recursive: <<>> for None
next_entry_address_recursive(m, tbl, index) ==
    LET t == TableFrame(m, "Recursive", tbl)
    IN IF /\ index \in DOMAIN m.tables[t]
          /\ "PRESENT" \in m.tables[t][index].flags
          /\ "HUGE_PAGE" \notin m.tables[t][index].flags
       THEN RecNext(tbl, index)
       ELSE <<>>

\* create_or_get_table_entry without new_table.zero(): the new table keeps
\* what the frame held, here two stale entries
CreateTableUnzeroed(m, a, t, tbl, index, access) ==
    LET written == EntryWrite(m.tables, t, index, a.frame * FRAME_SIZE,
                              {"PRESENT", "WRITABLE"})
        new_table == IF access = "Recursive"
                     THEN Translate(written, m.cr3, RecNext(tbl, index))
                     ELSE a.frame
        stale == [i \in {3, 400} |-> [address |-> 0, flags |-> {"PRESENT"}]]
    IN [m EXCEPT !.fa = a.fa, !.tables = (new_table :> stale) @@ written]

\* create_or_get_table_entry, the entry unused and frame a.frame allocated
CreateTable(m, a, t, tbl, index, access) ==
    LET written == EntryWrite(m.tables, t, index, a.frame * FRAME_SIZE,
                              {"PRESENT", "WRITABLE"})
        new_table == IF access = "Recursive"
                     THEN Translate(written, m.cr3, RecNext(tbl, index))
                     ELSE a.frame
    IN \* EntryTable::zero on the new table
       [m EXCEPT !.fa = a.fa, !.tables = (new_table :> EmptyTable) @@ written]

\* create_or_get_table_entry writing a new table over a used entry as well
CreateOrGetAlways(m, t, tbl, index, access) ==
    The({ IF a.panic # "" THEN [m EXCEPT !.panic = a.panic]
          ELSE IF a.frame = NoFrame
          THEN [m EXCEPT !.panic = "Out of memory (cannot create page table)."]
          ELSE CreateTable(m, a, t, tbl, index, access)
          : a \in {allocate_frame(m.fa)} })

\* create_or_get_table_entry, entry index of the table in frame t
CreateOrGet(m, t, tbl, index, access) ==
    IF is_unused(m.tables, t, index)
    THEN The({ IF a.panic # "" THEN [m EXCEPT !.panic = a.panic]
               ELSE IF a.frame = NoFrame
               THEN [m EXCEPT !.panic = "Out of memory (cannot create page table)."]
               ELSE CreateTable(m, a, t, tbl, index, access)
               : a \in {allocate_frame(m.fa)} })
    ELSE m

\* EntryTable::create_or_get_table_entry on the table tbl
create_or_get_table_entry(m, tbl, index, access) ==
    The({CreateOrGet(m, t, tbl, index, access) : t \in {TableFrame(m, access, tbl)}})

\* p4_map, after create_or_get_table_entry left the machine m1: the reference
\* to the table that entry index of tbl points to: [m, next]
NextTable(m1, tbl, index, access) ==
    IF m1.panic # "" THEN [m |-> m1, next |-> <<>>]
    ELSE IF access = "Identity"
    THEN LET f == pointed_frame(m1.tables, tbl, index)
         IN IF f = NoFrame
            THEN [m |-> [m1 EXCEPT !.panic = "called Option::unwrap on a None value"],
                  next |-> <<>>]
            ELSE [m |-> m1, next |-> f]
    ELSE LET n == next_entry_address_recursive(m1, tbl, index)
         IN IF n = <<>>
            THEN [m |-> [m1 EXCEPT !.panic = "An error occurred while creating the page table"],
                  next |-> <<>>]
            ELSE [m |-> m1, next |-> n]

\* one level of p4_map: create or get entry index of tbl, then the table it
\* points to
Descend(m, tbl, index, access) ==
    The({NextTable(m1, tbl, index, access) :
           m1 \in {create_or_get_table_entry(m, tbl, index, access)}})

\* the last step of p4_map without the test of allow_overwrite
SetP1EntryUnguarded(m, tbl, page, address, flags, allow_overwrite, access) ==
    LET t == TableFrame(m, access, tbl)
    IN [m EXCEPT !.tables = EntryWrite(m.tables, t, p1_index(page), address,
                                       flags \cup {"PRESENT"})]

\* the last step of p4_map: setting the p1 entry of table tbl
SetP1Entry(m, tbl, page, address, flags, allow_overwrite, access) ==
    LET t == TableFrame(m, access, tbl)
    IN IF ~is_unused(m.tables, t, p1_index(page)) /\ ~allow_overwrite
       THEN [m EXCEPT !.panic = "Tried to perform unauthorized entry overwrite."]
       ELSE [m EXCEPT !.tables = EntryWrite(m.tables, t, p1_index(page), address,
                                            flags \cup {"PRESENT"})]

\* p4_map from the table of level 1 on
MapLevel1(d1, frame, page, flags, allow_overwrite, access) ==
    IF d1.m.panic # "" THEN d1.m
    ELSE SetP1Entry(d1.m, d1.next, page, frame * FRAME_SIZE, flags,
                    allow_overwrite, access)

\* p4_map from the table of level 2 on
MapLevel2(d2, frame, page, flags, allow_overwrite, access) ==
    IF d2.m.panic # "" THEN d2.m
    ELSE The({MapLevel1(d1, frame, page, flags, allow_overwrite, access) :
                d1 \in {Descend(d2.m, d2.next, p2_index(page), access)}})

\* p4_map from the table of level 3 on
MapLevel3(d3, frame, page, flags, allow_overwrite, access) ==
    IF d3.m.panic # "" THEN d3.m
    ELSE The({MapLevel2(d2, frame, page, flags, allow_overwrite, access) :
                d2 \in {Descend(d3.m, d3.next, p3_index(page), access)}})

\* EntryTable::p4_map, called on the top-level table self; frame is the number
\* of the frame to map; invalidation changes no state of the model
p4_map(m, self, frame, page, flags, allow_overwrite, access) ==
    The({MapLevel3(d3, frame, page, flags, allow_overwrite, access) :
           d3 \in {Descend(m, self, p4_index(page), access)}})

\* -------------------------------------------------------------- memory/heap
\* HEAP_OFFSET / FRAME_SIZE (lib.rs), the page of 0xFFFFFFFE80000000
virtual_start_frame == <<RECURSIVE_INDEX, HEAP_P3_INDEX, 0, 0>>

\* the size normalisation of alloc and dealloc
NormSize(n) == IF n < LIST_HEAP_NODE_SIZE THEN LIST_HEAP_NODE_SIZE ELSE n

Node(is_last, next_node, hole_size) ==
    [is_last |-> is_last, next_node |-> next_node, hole_size |-> hole_size]

\* *(a as *mut ListHeapNode) = node
PutNode(mem, a, node) == (a :> node) @@ mem

\* the nodes a block handed to the caller overwrites
Clobber(mem, ptr, size) ==
    [a \in {x \in DOMAIN mem :
              x = SentinelAddr \/ x + LIST_HEAP_NODE_SIZE <= ptr \/ x >= ptr + size}
       |-> mem[a]]

\* What a read through a pointer that holds no node can give (a next_node of 0,
\* or a block the caller has written over): the bytes there read as a node
\* that ends the list, or as a node that looks like a large hole; the third
\* outcome, a page fault, halts the kernel (see Alloc and Dealloc).
GarbageNodes == {Node(TRUE, 0, 0), Node(TRUE, 0, 2 * FRAME_SIZE)}

\* previous: Option<&mut ListHeapNode> = None
NoPrevious == 0 - 1

\* the search loop of alloc taking the first node it reads, whatever its size
FindHoleAnySize(mem, current, previous, size, fuel) ==
    [found |-> TRUE, wild |-> FALSE, current |-> current, previous |-> previous]

\* the search loop of alloc taking a hole of size bytes or more, without the
\* room for the node of the remainder
RECURSIVE FindHoleTight(_, _, _, _, _)
FindHoleTight(mem, current, previous, size, fuel) ==
    IF current \notin DOMAIN mem \/ fuel = 0
    THEN [found |-> FALSE, wild |-> TRUE, current |-> current, previous |-> previous]
    ELSE IF mem[current].hole_size >= size /\ current # SentinelAddr
    THEN [found |-> TRUE, wild |-> FALSE, current |-> current, previous |-> previous]
    ELSE IF mem[current].is_last
    THEN [found |-> FALSE, wild |-> FALSE, current |-> current, previous |-> previous]
    ELSE FindHoleTight(mem, mem[current].next_node, current, size, fuel - 1)

\* the search loop of alloc from node current on:
\* [found, wild, current, previous] (previous = NoPrevious for None); wild: the loop
\* reads a node at current, where the allocator has written none
RECURSIVE FindHole(_, _, _, _, _)
FindHole(mem, current, previous, size, fuel) ==
    IF current \notin DOMAIN mem \/ fuel = 0
    THEN [found |-> FALSE, wild |-> TRUE, current |-> current, previous |-> previous]
    ELSE IF mem[current].hole_size >= size + LIST_HEAP_NODE_SIZE
    THEN [found |-> TRUE, wild |-> FALSE, current |-> current, previous |-> previous]
    ELSE IF mem[current].is_last
    THEN [found |-> FALSE, wild |-> FALSE, current |-> current, previous |-> previous]
    ELSE FindHole(mem, mem[current].next_node, current, size, fuel - 1)

\* alloc handing out the hole at current without placing the node of the
\* remainder: the hole stays in the list as it is
TakeHoleLeftInList(mem, current, previous, size) == mem

\* alloc, a suitable hole found at current: the memory afterwards
TakeHole(mem, current, previous, size) ==
    LET hole_address == current
        new_node == Node(mem[current].is_last, mem[current].next_node,
                         mem[current].hole_size - size)
        placed == PutNode(mem, hole_address + size, new_node)
        linked == IF previous # NoPrevious
                  THEN [placed EXCEPT ![previous].next_node = hole_address + size]
                  ELSE placed
    IN Clobber(linked, hole_address, size)

\* alloc, the loop "catching back with allocated and mapped frames" from i on
RECURSIVE MapHeapFrames(_, _, _)
\* one iteration of the loop mapping the frame without keeping the bitmap
\* allocate_frame has marked it in
MapHeapFrameNotTaken(m, a, i, current_frame) ==
    IF a.panic # "" THEN [m EXCEPT !.panic = a.panic]
    ELSE IF a.frame = NoFrame
    THEN [m EXCEPT !.panic = "Out of memory (cannot get frame for heap allocator)."]
    ELSE The({ IF m1.panic # "" THEN m1 ELSE MapHeapFrames(m1, i + 1, current_frame)
               : m1 \in {p4_map(m, RecursiveP4, a.frame,
                                PageAdd(virtual_start_frame, i),
                                {"PRESENT", "WRITABLE"}, FALSE, "Recursive")} })

\* one iteration of the loop, allocate_frame having returned a
MapHeapFrame(m, a, i, current_frame) ==
    IF a.panic # "" THEN [m EXCEPT !.panic = a.panic]
    ELSE IF a.frame = NoFrame
    THEN [m EXCEPT !.panic = "Out of memory (cannot get frame for heap allocator)."]
    ELSE The({ IF m1.panic # "" THEN m1 ELSE MapHeapFrames(m1, i + 1, current_frame)
               : m1 \in {p4_map([m EXCEPT !.fa = a.fa], RecursiveP4, a.frame,
                                PageAdd(virtual_start_frame, i),
                                {"PRESENT", "WRITABLE"}, FALSE, "Recursive")} })

\* the frame loop of alloc ending one frame short
MapHeapFramesOneShort(m, i, current_frame) ==
    IF i + 1 >= current_frame THEN m
    ELSE The({MapHeapFrame(m, a, i, current_frame) : a \in {allocate_frame(m.fa)}})

MapHeapFrames(m, i, current_frame) ==
    IF i >= current_frame THEN m
    ELSE The({MapHeapFrame(m, a, i, current_frame) : a \in {allocate_frame(m.fa)}})

\* dealloc at the last node always appending a hole, never extending
DeallocAtTailAppend(mem, current, ptr, size) ==
    PutNode([mem EXCEPT ![current].is_last = FALSE, ![current].next_node = ptr],
            ptr, Node(TRUE, 0, size))

\* dealloc at the node current with is_last set: extend it or append a hole
DeallocAtTail(mem, current, ptr, size) ==
    IF mem[current].hole_size + current = ptr /\ current # SentinelAddr
    THEN [mem EXCEPT ![current].hole_size = @ + size]
    ELSE PutNode([mem EXCEPT ![current].is_last = FALSE, ![current].next_node = ptr],
                 ptr, Node(TRUE, 0, size))

\* dealloc at "the right spot", between the node current (ptr > current) and
\* its successor: the four cases of merging
DeallocInsert(mem, current, ptr, size) ==
    LET next_hole_address == mem[current].next_node
    IN IF current + mem[current].hole_size = ptr /\ current # SentinelAddr
       THEN IF ptr + size = next_hole_address
            THEN \* Merge current with next
                 [mem EXCEPT
                    ![current].hole_size = @ + size + mem[next_hole_address].hole_size,
                    ![current].next_node = mem[next_hole_address].next_node]
            ELSE \* Merge new with current
                 [mem EXCEPT ![current].hole_size = @ + size]
       ELSE IF ptr + size = next_hole_address
            THEN \* Merge new with next
                 PutNode([mem EXCEPT ![current].next_node = ptr], ptr,
                         Node(mem[next_hole_address].is_last,
                              mem[next_hole_address].next_node,
                              size + mem[next_hole_address].hole_size))
            ELSE \* Insert new hole without merging
                 PutNode([mem EXCEPT ![current].next_node = ptr], ptr,
                         Node(FALSE, next_hole_address, size))

\* the dealloc loop from node current on: [wild, at, mem], the memory
\* afterwards, or wild when the loop reads a node at address at, where the
\* allocator has written none
RECURSIVE DeallocWalk(_, _, _, _, _)
DeallocWalk(mem, current, ptr, size, fuel) ==
    IF current \notin DOMAIN mem \/ fuel = 0
    THEN [wild |-> TRUE, at |-> current, mem |-> mem]
    ELSE IF mem[current].is_last
    THEN [wild |-> FALSE, at |-> 0, mem |-> DeallocAtTail(mem, current, ptr, size)]
    ELSE IF ptr > current
    THEN IF ptr + size = mem[current].next_node /\ mem[current].next_node \notin DOMAIN mem
         THEN [wild |-> TRUE, at |-> mem[current].next_node, mem |-> mem]
         ELSE [wild |-> FALSE, at |-> 0, mem |-> DeallocInsert(mem, current, ptr, size)]
    ELSE DeallocWalk(mem, mem[current].next_node, ptr, size, fuel - 1)

\* the holes reachable from the sentinel, in list order, the sentinel left out
RECURSIVE HolesFrom(_, _, _)
HolesFrom(mem, a, fuel) ==
    IF a \notin DOMAIN mem \/ fuel = 0 THEN <<[address |-> a, hole_size |-> 0 - 1, is_last |-> TRUE]>>
    ELSE <<[address |-> a, hole_size |-> mem[a].hole_size, is_last |-> mem[a].is_last]>>
         \o (IF mem[a].is_last THEN <<>> ELSE HolesFrom(mem, mem[a].next_node, fuel - 1))

HoleList(mem) == Tail(HolesFrom(mem, SentinelAddr, Cardinality(DOMAIN mem) + 1))

\* ---------------------------------------------------- the heap in operation
Machine == [fa |-> frame_allocator, tables |-> tables, cr3 |-> cr3_reg, panic |-> ""]

\* no frame allocator call yet
NoCall == [op |-> "none", frame |-> NoFrame, again |-> FALSE]

\* no p4_map call yet
NoMap == [n |-> 0, frame |-> NoFrame, page |-> <<>>, flags |-> {},
          allow_overwrite |-> FALSE, access |-> ""]

\* the processors that call alloc and dealloc concurrently
Callers == {"first", "second"}

\* both spinlocks free, nobody inside an allocator call
IdleCpu == [inner |-> "free", frames |-> "free", main |-> "idle", irq |-> "idle",
            call |-> <<>>, icall |-> <<>>, interrupts |-> 0, calls |-> 0,
            callers |-> [c \in Callers |->
                           [at |-> "idle", call |-> [op |-> "none", n |-> 0, b |-> <<>>],
                            left |-> 0]]]

\* the last three calls
Remember(h, call) == IF Len(h) >= 3 THEN Tail(h) \o <<call>> ELSE h \o <<call>>

AllocCall(ptr, n, kind, before) ==
    [op |-> "alloc", ptr |-> ptr, n |-> n, kind |-> kind, before |-> before]

DeallocCall(ptr, n) ==
    [op |-> "dealloc", ptr |-> ptr, n |-> n, kind |-> "", before |-> <<>>]

\* the scenario "alloc(256) three times on a fresh heap, then free the three
\* blocks in address order": step 0..6, step 7 once the run has left it
ScenAlloc(sc, n, ptr) ==
    IF sc.step < 3 /\ n = 256
    THEN [step |-> sc.step + 1, blocks |-> Append(sc.blocks, ptr)]
    ELSE [step |-> 7, blocks |-> <<>>]

ScenDealloc(sc, ptr) ==
    IF sc.step \in 3 .. 5 /\ ptr = sc.blocks[sc.step - 2]
    THEN [sc EXCEPT !.step = @ + 1]
    ELSE [step |-> 7, blocks |-> <<>>]

\* a small machine after boot: the first used frames are taken (frame
\* 0 holds the bitmap, frame 1 the top-level table), the others are free
BootedAllocator(used) ==
    LET bytes == ceil_div_usize(HeapMachineFrames, 8)
    IN [bitmap_frame |-> 0,
        bitmap_size_in_bytes |-> bytes,
        bitmap_size_in_frames |-> ceil_div_usize(bytes, FRAME_SIZE),
        frames_amount |-> HeapMachineFrames,
        memory_end |-> HeapMachineFrames * FRAME_SIZE,
        slice |-> [b \in 0 .. (bytes - 1) |->
                     IF 8 * b + 8 <= used THEN 255
                     ELSE IF 8 * b >= used THEN 0
                     ELSE Pow2(used - 8 * b) - 1]]

\* kernel_main up to LinkedListHeapAllocator::new: the top-level table holds
\* its own frame at index 511, the heap is empty
Init ==
    /\ \E used \in {2, HeapMachineFrames - 3, HeapMachineFrames - 1} :
          frame_allocator = BootedAllocator(used)
    /\ p4_frame = 1
    /\ tables = (1 :> (RECURSIVE_INDEX :>
                    [address |-> FRAME_SIZE, flags |-> {"PRESENT", "WRITABLE"}]))
    /\ heap_mem = (SentinelAddr :> Node(TRUE, 0, 0))
    /\ max_currently_used = 0
    /\ live = {}
    /\ hist = <<>>
    /\ scen = [step |-> 0, blocks |-> <<>>]
    /\ nallocs = 0
    /\ memory_map = <<>>
    /\ fa_call = NoCall
    /\ panic = ""
    /\ pc = "heap"
    /\ cr3_reg = 1
    /\ map_call = NoMap
    /\ cpu = IdleCpu

\* alloc with the hole list held in mem
AllocOn(mem, n) ==
    LET size == NormSize(n)
        f == FindHole(mem, SentinelAddr, NoPrevious, size, Cardinality(DOMAIN mem) + 1)
        prev_max_currently_used == max_currently_used
        new_max == max_currently_used + size
        prev_frame == ceil_div_usize(prev_max_currently_used, FRAME_SIZE)
        current_frame == ceil_div_usize(new_max, FRAME_SIZE)
        m == MapHeapFrames(Machine, prev_frame, current_frame)
        ptr == prev_max_currently_used + HEAP_OFFSET
    IN IF f.found
       THEN /\ heap_mem' = TakeHole(mem, f.current, f.previous, size)
            /\ live' = live \cup {[ptr |-> f.current, n |-> n]}
            /\ hist' = Remember(hist, AllocCall(f.current, n, "split", HoleList(heap_mem)))
            /\ scen' = ScenAlloc(scen, n, f.current)
            /\ UNCHANGED <<frame_allocator, tables, max_currently_used, panic>>
       ELSE IF new_max >= MaxMemoryAmount
       THEN /\ max_currently_used' = new_max
            /\ panic' = "Reached maximum kernel heap size."
            /\ heap_mem' = mem
            /\ UNCHANGED <<frame_allocator, tables, live, hist, scen>>
       ELSE /\ max_currently_used' = new_max
            /\ frame_allocator' = m.fa
            /\ tables' = m.tables
            /\ panic' = m.panic
            /\ IF m.panic # ""
               THEN /\ heap_mem' = mem
                    /\ UNCHANGED <<live, hist, scen>>
               ELSE /\ heap_mem' = Clobber(mem, ptr, size)
                    /\ live' = live \cup {[ptr |-> ptr, n |-> n]}
                    /\ hist' = Remember(hist, AllocCall(ptr, n, "extend", HoleList(heap_mem)))
                    /\ scen' = ScenAlloc(scen, n, ptr)

\* the body of alloc, from the search loop to the return
AllocBody(n) ==
    /\ panic = ""
    /\ nallocs < MaxAllocs
    /\ nallocs' = nallocs + 1
    /\ UNCHANGED <<p4_frame, memory_map, fa_call>>
    /\ LET f == FindHole(heap_mem, SentinelAddr, NoPrevious, NormSize(n),
                         Cardinality(DOMAIN heap_mem) + 1)
       IN IF f.wild
          THEN \/ /\ panic' = "page fault"
                  /\ UNCHANGED <<frame_allocator, tables, heap_mem,
                                 max_currently_used, live, hist, scen>>
               \/ \E g \in GarbageNodes : AllocOn(PutNode(heap_mem, f.current, g), n)
          ELSE AllocOn(heap_mem, n)

\* GlobalAlloc::alloc(layout) with layout.size() = n
Alloc(n) == AllocBody(n) /\ UNCHANGED boot_vars

\* dealloc with the hole list held in mem
DeallocOn(mem, b) ==
    /\ heap_mem' = DeallocWalk(mem, SentinelAddr, b.ptr, NormSize(b.n),
                               Cardinality(DOMAIN mem) + 1).mem
    /\ live' = live \ {b}
    /\ hist' = Remember(hist, DeallocCall(b.ptr, b.n))
    /\ scen' = ScenDealloc(scen, b.ptr)
    /\ UNCHANGED panic

\* the body of dealloc, from the walk to the return
DeallocBody(b) ==
    /\ panic = ""
    /\ b \in live
    /\ UNCHANGED <<frame_allocator, tables, p4_frame, max_currently_used, nallocs,
                   memory_map, fa_call>>
    /\ LET w == DeallocWalk(heap_mem, SentinelAddr, b.ptr, NormSize(b.n),
                            Cardinality(DOMAIN heap_mem) + 1)
       IN IF w.wild
          THEN \/ /\ panic' = "page fault"
                  /\ UNCHANGED <<heap_mem, live, hist, scen>>
               \/ \E g \in GarbageNodes : DeallocOn(PutNode(heap_mem, w.at, g), b)
          ELSE DeallocOn(heap_mem, b)

\* GlobalAlloc::dealloc(ptr, layout) of a live block with its own layout
Dealloc(b) == DeallocBody(b) /\ UNCHANGED boot_vars

Next ==
    \/ \E n \in AllocSizes : Alloc(n)
    \/ \E b \in live : Dealloc(b)

Spec == Init /\ [][Next]_vars

\* ------------------------------------------- the frame allocator, by call
\* A machine of BitmapMachineFrames complete frames and an incomplete one at
\* the end of memory, all usable; the allocator is the one new builds for it.
BitmapMachineMap ==
    <<Area(0, BitmapMachineFrames * FRAME_SIZE + FRAME_SIZE \div 2, "Usable")>>

\* frame numbers handed to deallocate_frame: every frame of the machine, the
\* incomplete one, and the first one past the slice
DeallocFrames == 0 .. (8 * ceil_div_usize(BitmapMachineFrames, 8))

\* frame numbers handed to mark_frame: the incomplete frame at the end of
\* memory and a number above memory_end
MarkFrames ==
    {BitmapMachineFrames, BitmapMachineFrames * FRAME_SIZE + FRAME_SIZE \div 2 + 1}

InitBitmap ==
    /\ memory_map = BitmapMachineMap
    /\ frame_allocator = new(BitmapMachineMap).fa
    /\ fa_call = NoCall
    /\ panic = ""
    /\ p4_frame = NoFrame
    /\ tables = EmptyTable
    /\ heap_mem = (SentinelAddr :> Node(TRUE, 0, 0))
    /\ max_currently_used = 0
    /\ live = {}
    /\ hist = <<>>
    /\ scen = [step |-> 0, blocks |-> <<>>]
    /\ nallocs = 0
    /\ pc = "frames"
    /\ cr3_reg = NoFrame
    /\ map_call = NoMap
    /\ cpu = IdleCpu

\* FrameAllocator::allocate_frame
AllocateFrame ==
    /\ panic = ""
    /\ LET r == allocate_frame(frame_allocator)
       IN /\ frame_allocator' = r.fa
          /\ panic' = r.panic
          /\ fa_call' = [op |-> "allocate_frame", frame |-> r.frame,
                         again |-> /\ fa_call.op = "deallocate_frame"
                                   /\ fa_call.frame = r.frame]
    /\ UNCHANGED <<tables, p4_frame, memory_map, heap_vars, boot_vars>>

\* FrameAllocator::deallocate_frame(FrameInfo::from_number(f))
DeallocateFrame(f) ==
    /\ panic = ""
    /\ LET r == deallocate_frame(frame_allocator, f)
       IN /\ frame_allocator' = r.fa
          /\ panic' = r.panic
          /\ fa_call' = [op |-> "deallocate_frame", frame |-> f, again |-> FALSE]
    /\ UNCHANGED <<tables, p4_frame, memory_map, heap_vars, boot_vars>>

\* BitMapFrameAllocator::mark_frame(f, allocated)
MarkFrame(f, allocated) ==
    /\ panic = ""
    /\ LET r == mark_frame(frame_allocator, f, allocated)
       IN /\ frame_allocator' = r.fa
          /\ panic' = r.panic
          /\ fa_call' = [op |-> "mark_frame", frame |-> f, again |-> allocated]
    /\ UNCHANGED <<tables, p4_frame, memory_map, heap_vars, boot_vars>>

NextBitmap ==
    \/ AllocateFrame
    \/ \E f \in DeallocFrames : DeallocateFrame(f)
    \/ \E f \in MarkFrames, allocated \in BOOLEAN : MarkFrame(f, allocated)

SpecBitmap == InitBitmap /\ [][NextBitmap]_vars

\* -------------------------------------------------- mark_frame, by call
\* frame numbers handed to mark_frame alone: two frames of the machine, the
\* incomplete frame at the end of memory (memory_end / 4096), a frame past it
\* whose bit lies in the slice, the first frame past the slice, memory_end and
\* the number above it
MarkedFrames ==
    {1, BitmapMachineFrames - 1, BitmapMachineFrames, BitmapMachineFrames + 2,
     8 * ceil_div_usize(BitmapMachineFrames, 8),
     BitmapMachineFrames * FRAME_SIZE + FRAME_SIZE \div 2,
     BitmapMachineFrames * FRAME_SIZE + FRAME_SIZE \div 2 + 1}

NextMark == \E f \in MarkedFrames, allocated \in BOOLEAN : MarkFrame(f, allocated)

SpecMark == InitBitmap /\ [][NextMark]_vars

\* ------------------------------------------------ the page tables, by call
\* pages handed to p4_map: the VGA page 0xb8 and another identity page, the
\* first kernel page (KERNEL_OFFSET / FRAME_SIZE) and the second heap page
PagingPages == {<<0, 0, 0, 184>>, <<0, 0, 1, 5>>,
                <<RECURSIVE_INDEX, 510, 0, 0>>, <<RECURSIVE_INDEX, HEAP_P3_INDEX, 0, 1>>}

\* frame numbers handed to p4_map
PagingFrames == {184, 7}

\* flags handed to p4_map, with and without PRESENT
PagingFlags == {{"WRITABLE"}, {"PRESENT", "WRITABLE"}}

\* kernel_main has created the top-level table in frame 1 and written its
\* entry 511; CR3 still holds the bootloader's tables
InitPaging ==
    /\ \E used \in {2, HeapMachineFrames - 3} : frame_allocator = BootedAllocator(used)
    /\ p4_frame = 1
    /\ tables = (1 :> (RECURSIVE_INDEX :>
                    [address |-> FRAME_SIZE, flags |-> {"PRESENT", "WRITABLE"}]))
    /\ cr3_reg = NoFrame
    /\ pc = "write_cr3"
    /\ map_call = NoMap
    /\ heap_mem = (SentinelAddr :> Node(TRUE, 0, 0))
    /\ max_currently_used = 0
    /\ live = {}
    /\ hist = <<>>
    /\ scen = [step |-> 0, blocks |-> <<>>]
    /\ nallocs = 0
    /\ memory_map = <<>>
    /\ fa_call = NoCall
    /\ panic = ""
    /\ cpu = IdleCpu

\* EntryTable::p4_map on the new top-level table: through physical addresses
\* (Identity) while the bootloader's tables are in CR3, through the recursive
\* entry (Recursive) once the new table is
P4Map(frame, page, flags, allow_overwrite) ==
    /\ panic = ""
    /\ map_call.n < MaxMaps
    /\ LET access == IF cr3_reg = NoFrame THEN "Identity" ELSE "Recursive"
           self == IF cr3_reg = NoFrame THEN p4_frame ELSE RecursiveP4
           m == p4_map(Machine, self, frame, page, flags, allow_overwrite, access)
       IN /\ frame_allocator' = m.fa
          /\ tables' = m.tables
          /\ panic' = m.panic
          /\ map_call' = [n |-> map_call.n + 1, frame |-> frame, page |-> page,
                          flags |-> flags, allow_overwrite |-> allow_overwrite,
                          access |-> access]
    /\ UNCHANGED <<p4_frame, memory_map, fa_call, heap_vars, pc, cr3_reg, cpu>>

\* kernel_main: write_cr3(p4_frame.address)
WriteCr3 ==
    /\ panic = ""
    /\ pc = "write_cr3"
    /\ cr3_reg' = p4_frame
    /\ pc' = "heap_new"
    /\ UNCHANGED <<frame_allocator, tables, p4_frame, memory_map, fa_call, heap_vars,
                   panic, map_call, cpu>>

NextPaging ==
    \/ \E frame \in PagingFrames, page \in PagingPages, flags \in PagingFlags,
          allow_overwrite \in BOOLEAN : P4Map(frame, page, flags, allow_overwrite)
    \/ WriteCr3

SpecPaging == InitPaging /\ [][NextPaging]_vars

\* ------------------------------------------ construction from a memory map
\* addresses the generated areas start and end at: frame boundaries and
\* addresses inside a frame, up to past the eighth frame
MapAddresses == {0, 2048, 4096, 12288, 14336, 32768, 34816}

AreaTypes == {"Usable", "Reserved"}

AreaSet == {Area(st, en, ty) : st \in MapAddresses, en \in MapAddresses, ty \in AreaTypes}

\* the maps of n areas, in order of start address and not overlapping
RECURSIVE MapsOfLen(_)
MapsOfLen(n) ==
    IF n = 1 THEN {<<a>> : a \in {x \in AreaSet : x.start < x.end}}
    ELSE UNION { {Append(mm, a) : a \in {x \in AreaSet : /\ x.start < x.end
                                                          /\ mm[n - 1].end <= x.start}}
                 : mm \in MapsOfLen(n - 1) }

Ordered(mm) == \A k \in 1 .. (Len(mm) - 1) : mm[k].end <= mm[k + 1].start

\* the memory map of the construction scenario
ScenarioMap ==
    <<Area(0, 655360, "Usable"), Area(655360, 1048576, "Reserved"),
      Area(1048576, 134217728, "Usable")>>

MemoryMaps ==
    {ScenarioMap} \cup UNION {{mm \in MapsOfLen(n) : Ordered(mm)} : n \in 1 .. MaxAreas}

InitNew ==
    /\ memory_map \in MemoryMaps
    /\ frame_allocator = NoAllocator
    /\ fa_call = NoCall
    /\ panic = ""
    /\ p4_frame = NoFrame
    /\ tables = EmptyTable
    /\ heap_mem = (SentinelAddr :> Node(TRUE, 0, 0))
    /\ max_currently_used = 0
    /\ live = {}
    /\ hist = <<>>
    /\ scen = [step |-> 0, blocks |-> <<>>]
    /\ nallocs = 0
    /\ pc = "new"
    /\ cr3_reg = NoFrame
    /\ map_call = NoMap
    /\ cpu = IdleCpu

\* kernel_main: BitMapFrameAllocator::new(memory_map.iter())
New ==
    /\ panic = ""
    /\ fa_call.op = "none"
    /\ LET r == new(memory_map)
       IN /\ frame_allocator' = r.fa
          /\ panic' = r.panic
    /\ fa_call' = [op |-> "new", frame |-> NoFrame, again |-> FALSE]
    /\ UNCHANGED <<tables, p4_frame, memory_map, heap_vars, boot_vars>>

\* the first allocate_frame on the allocator new has just built
FirstAllocateFrame ==
    /\ fa_call.op = "new"
    /\ AllocateFrame

NextNew ==
    \/ New
    \/ FirstAllocateFrame

SpecNew == InitNew /\ [][NextNew]_vars

\* ----------------------------------------------------------- kernel_main
\* p4_map of the frames i .. frame_end - 1, frame f to the page base + f, with
\* PRESENT|WRITABLE and allow_overwrite = false, in ascending order and
\* stopping at the first panic (the range is split in two like mark_frames)
RECURSIVE map_frames(_, _, _, _, _, _)
map_frames(m, self, i, frame_end, base, access) ==
    IF i >= frame_end \/ m.panic # "" THEN m
    ELSE IF frame_end - i = 1
    THEN p4_map(m, self, i, PageAdd(base, i), {"PRESENT", "WRITABLE"}, FALSE, access)
    ELSE The({ map_frames(r, self, i + (frame_end - i) \div 2, frame_end, base, access)
               : r \in {map_frames(m, self, i, i + (frame_end - i) \div 2, base, access)} })

\* FrameAllocator::identity_map
identity_map(m, self, access) ==
    map_frames(m, self, m.fa.bitmap_frame,
               m.fa.bitmap_frame + m.fa.bitmap_size_in_frames, PageOfNumber(0), access)

\* the match of lines 293-301 with BadMemory on the side of the mapped types
RemapOfBadMemoryMapped(type) ==
    IF type = "Usable" THEN [do_map |-> FALSE, base |-> PageOfNumber(0)]
    ELSE IF type = "Kernel"
    THEN [do_map |-> TRUE, base |-> <<RECURSIVE_INDEX, KERNEL_P3_INDEX, 0, 0>>]
    ELSE [do_map |-> TRUE, base |-> PageOfNumber(0)]

\* p4_kernel_remap, the match on the entry type: [do_map, base], base the page
\* of the offset
RemapOf(type) ==
    IF type \in {"Usable", "BadMemory"} THEN [do_map |-> FALSE, base |-> PageOfNumber(0)]
    ELSE IF type = "Kernel"
    THEN [do_map |-> TRUE, base |-> <<RECURSIVE_INDEX, KERNEL_P3_INDEX, 0, 0>>]
    ELSE [do_map |-> TRUE, base |-> PageOfNumber(0)]

\* p4_kernel_remap, the loop over the memory map from area k on
RECURSIVE RemapAreas(_, _, _, _)
RemapAreas(m, self, areas, k) ==
    IF k > Len(areas) \/ m.panic # "" THEN m
    ELSE IF ~RemapOf(areas[k].type).do_map THEN RemapAreas(m, self, areas, k + 1)
    ELSE The({ RemapAreas(r, self, areas, k + 1)
               : r \in {map_frames(m, self, areas[k].start \div FRAME_SIZE,
                                   ceil_div_usize(areas[k].end, FRAME_SIZE),
                                   RemapOf(areas[k].type).base, "Identity")} })

\* p4_kernel_remap without the loop over the memory map
p4_kernel_remap_without_areas(m, self, areas) ==
    The({ IF i.panic # "" THEN i
          ELSE p4_map(i, self, VGA_ADDRESS \div FRAME_SIZE,
                      PageOfNumber(VGA_ADDRESS \div FRAME_SIZE),
                      {"PRESENT", "WRITABLE"}, FALSE, "Identity")
          : i \in {identity_map(m, self, "Identity")} })

\* EntryTable::p4_kernel_remap
p4_kernel_remap(m, self, areas) ==
    The({ IF i.panic # "" THEN i
          ELSE The({ RemapAreas(v, self, areas, 1)
                     : v \in {p4_map(i, self, VGA_ADDRESS \div FRAME_SIZE,
                                     PageOfNumber(VGA_ADDRESS \div FRAME_SIZE),
                                     {"PRESENT", "WRITABLE"}, FALSE, "Identity")} })
          : i \in {identity_map(m, self, "Identity")} })

\* frames of a machine of 3 GiB
BigFramesAmount == 786432

\* its memory_end, 3 GiB, held as the largest integer at hand: the program
\* only compares memory_end with frame numbers and divides it by FRAME_SIZE
BigMemoryEnd == 2147483647

\* memory maps of machines of 3 GiB, the last area reaching the end of memory:
\* the VGA buffer in a gap of the map, inside a Reserved area, or inside the
\* Usable area of a map that reports the first MiB as ordinary memory; and a
\* map with a Reserved area right above the bitmap's frames, ending inside a
\* frame
BigMaps ==
    { <<Area(0, 651264, "Usable"), Area(651264, 655360, "Reserved"),
        Area(983040, 1048576, "Reserved"), Area(1048576, 1048576 + k * FRAME_SIZE, "Kernel"),
        Area(1048576 + k * FRAME_SIZE, BigMemoryEnd, "Usable")>> : k \in {2, 3} }
    \cup
    { <<Area(0, 651264, "Usable"), Area(655360, 1048576, "Reserved"),
        Area(1048576, 1048576 + 2 * FRAME_SIZE, "Kernel"),
        Area(1048576 + 2 * FRAME_SIZE, BigMemoryEnd, "Usable")>> }
    \cup
    { <<Area(0, 26 * FRAME_SIZE, "Usable"),
        Area(26 * FRAME_SIZE, 27 * FRAME_SIZE + FRAME_SIZE \div 2, "Reserved"),
        Area(27 * FRAME_SIZE + FRAME_SIZE \div 2, 651264, "Usable"),
        Area(1048576, 1048576 + 2 * FRAME_SIZE, "Kernel"),
        Area(1048576 + 2 * FRAME_SIZE, BigMemoryEnd, "Usable")>> }
    \cup
    { <<Area(0, 1048576, "Usable"),
        Area(1048576, 1048576 + 2 * FRAME_SIZE, "Kernel"),
        Area(1048576 + 2 * FRAME_SIZE, BigMemoryEnd, "Usable")>> }

\* BitMapFrameAllocator::new on a map of BigMaps: [fa, panic]
BigNew(areas) ==
    LET bitmap_length_in_bytes == ceil_div_usize(BigFramesAmount, 8)
        continuous_frames_amount == ceil_div_usize(bitmap_length_in_bytes, FRAME_SIZE)
    IN MarkInitial([frames_amount |-> BigFramesAmount,
                    bitmap_frame |-> FindBitmapFrame(areas, 1, continuous_frames_amount),
                    bitmap_size_in_bytes |-> bitmap_length_in_bytes,
                    bitmap_size_in_frames |-> continuous_frames_amount,
                    memory_end |-> BigMemoryEnd,
                    slice |-> <<>>], areas)

\* kernel_main has built the frame allocator from the memory map
InitBoot ==
    /\ memory_map \in BigMaps \cup {ScenarioMap}
    /\ frame_allocator = IF memory_map \in BigMaps THEN BigNew(memory_map).fa
                         ELSE new(memory_map).fa
    /\ fa_call = NoCall
    /\ panic = ""
    /\ p4_frame = NoFrame
    /\ tables = EmptyTable
    /\ heap_mem = EmptyTable
    /\ max_currently_used = 0
    /\ live = {}
    /\ hist = <<>>
    /\ scen = [step |-> 0, blocks |-> <<>>]
    /\ nallocs = 0
    /\ pc = "mark_vga"
    /\ cr3_reg = NoFrame
    /\ map_call = NoMap
    /\ cpu = IdleCpu

\* kernel_main: frame_allocator.mark_frame(0xb8000, true)
BootMarkVga ==
    /\ panic = ""
    /\ pc = "mark_vga"
    /\ LET r == mark_frame(frame_allocator, VGA_ADDRESS, TRUE)
       IN /\ frame_allocator' = r.fa
          /\ panic' = r.panic
    /\ pc' = "create_p4"
    /\ UNCHANGED <<tables, p4_frame, memory_map, fa_call, heap_vars, cr3_reg, map_call, cpu>>

\* kernel_main: allocate_frame for the top-level table, then p4_table.zero()
BootCreateP4 ==
    /\ panic = ""
    /\ pc = "create_p4"
    /\ LET a == allocate_frame(frame_allocator)
       IN /\ frame_allocator' = a.fa
          /\ p4_frame' = a.frame
          /\ IF a.panic # "" THEN panic' = a.panic /\ tables' = tables
             ELSE IF a.frame = NoFrame
             THEN panic' = "Out of memory (cannot create P4 page table)." /\ tables' = tables
             ELSE panic' = "" /\ tables' = (a.frame :> EmptyTable) @@ tables
    /\ pc' = "recursive"
    /\ UNCHANGED <<memory_map, fa_call, heap_vars, cr3_reg, map_call, cpu>>

\* kernel_main: p4_table.entries[511].write(p4_frame, PRESENT | WRITABLE)
BootWriteRecursive ==
    /\ panic = ""
    /\ pc = "recursive"
    /\ tables' = EntryWrite(tables, p4_frame, RECURSIVE_INDEX, p4_frame * FRAME_SIZE,
                            {"PRESENT", "WRITABLE"})
    /\ pc' = "remap"
    /\ UNCHANGED <<frame_allocator, p4_frame, memory_map, fa_call, heap_vars, panic,
                   cr3_reg, map_call, cpu>>

\* kernel_main: p4_table.p4_kernel_remap(&stivale_struct, &mut frame_allocator)
BootKernelRemap ==
    /\ panic = ""
    /\ pc = "remap"
    /\ LET m == p4_kernel_remap(Machine, p4_frame, memory_map)
       IN /\ frame_allocator' = m.fa
          /\ tables' = m.tables
          /\ panic' = m.panic
    /\ pc' = "write_cr3"
    /\ UNCHANGED <<p4_frame, memory_map, fa_call, heap_vars, cr3_reg, map_call, cpu>>

\* kernel_main: LinkedListHeapAllocator::new and ALLOCATOR = AllocOption(Some(..))
BootHeapNew ==
    /\ panic = ""
    /\ pc = "heap_new"
    /\ heap_mem' = (SentinelAddr :> Node(TRUE, 0, 0))
    /\ max_currently_used' = 0
    /\ pc' = "tests"
    /\ UNCHANGED <<frame_allocator, tables, p4_frame, memory_map, fa_call, live, hist,
                   scen, nallocs, panic, cr3_reg, map_call, cpu>>

\* kernel_main, the allocation tests: an alloc through the global allocator
BootAlloc(n) ==
    /\ pc = "tests"
    /\ nallocs < MaxBootAllocs
    /\ Alloc(n)

\* kernel_main, the allocation tests: a Box or Vec dropped
BootDealloc(b) ==
    /\ pc = "tests"
    /\ Dealloc(b)

NextBoot ==
    \/ BootMarkVga
    \/ BootCreateP4
    \/ BootWriteRecursive
    \/ BootKernelRemap
    \/ WriteCr3
    \/ BootHeapNew
    \/ \E n \in AllocSizes : BootAlloc(n)
    \/ \E b \in live : BootDealloc(b)

SpecBoot == InitBoot /\ [][NextBoot]_vars

\* ------------------------------------------- the heap under interrupts
\* The interrupted code (main) and an interrupt handler (irq) of the same
\* CPU call alloc and dealloc. A call takes the spin::Mutex of inner with
\* self.inner.lock(), runs its body and releases the lock when the guard is
\* dropped at the return; alloc and dealloc leave the interrupt flag alone.
\* The handler runs to its end before the interrupted code goes on.
HeapCalls ==
    {[op |-> "alloc", n |-> n, b |-> <<>>] : n \in AllocSizes}
    \cup {[op |-> "dealloc", n |-> 0, b |-> b] : b \in live}

\* the body of the call c
CallBody(c) ==
    IF c.op = "alloc" THEN nallocs < MaxInterruptAllocs /\ AllocBody(c.n)
    ELSE DeallocBody(c.b)

\* the interrupted code calls alloc or dealloc
MainCall(c) ==
    /\ panic = ""
    /\ cpu.irq = "idle" /\ cpu.main = "idle"
    /\ cpu' = [cpu EXCEPT !.main = "lock", !.call = c]
    /\ UNCHANGED <<frame_allocator, tables, p4_frame, memory_map, fa_call, heap_vars,
                   panic, pc, cr3_reg, map_call>>

\* self.inner.lock() of the interrupted code succeeds
MainLock ==
    /\ panic = ""
    /\ cpu.irq = "idle" /\ cpu.main = "lock" /\ cpu.inner = "free"
    /\ cpu' = [cpu EXCEPT !.main = "body", !.inner = "main"]
    /\ UNCHANGED <<frame_allocator, tables, p4_frame, memory_map, fa_call, heap_vars,
                   panic, pc, cr3_reg, map_call>>

\* the interrupted code runs the body of its call and returns, dropping the
\* guard; a call whose block is gone by now is not made
MainBody ==
    /\ cpu.irq = "idle" /\ cpu.main = "body"
    /\ CallBody(cpu.call)
    /\ cpu' = [cpu EXCEPT !.main = "idle", !.inner = "free", !.call = <<>>]
    /\ UNCHANGED <<pc, cr3_reg, map_call>>

\* an interrupt arrives and its handler calls alloc or dealloc
Interrupt(c) ==
    /\ panic = ""
    /\ cpu.irq = "idle"
    /\ cpu.interrupts < MaxInterrupts
    /\ cpu' = [cpu EXCEPT !.irq = "lock", !.icall = c, !.interrupts = @ + 1]
    /\ UNCHANGED <<frame_allocator, tables, p4_frame, memory_map, fa_call, heap_vars,
                   panic, pc, cr3_reg, map_call>>

\* self.inner.lock() of the handler succeeds
IrqLock ==
    /\ panic = ""
    /\ cpu.irq = "lock" /\ cpu.inner = "free"
    /\ cpu' = [cpu EXCEPT !.irq = "body", !.inner = "irq"]
    /\ UNCHANGED <<frame_allocator, tables, p4_frame, memory_map, fa_call, heap_vars,
                   panic, pc, cr3_reg, map_call>>

\* self.inner.lock() of the handler finds the lock taken: one more turn of
\* the spin loop
IrqSpin ==
    /\ panic = ""
    /\ cpu.irq = "lock" /\ cpu.inner # "free"
    /\ UNCHANGED vars

\* the handler runs the body of its call, drops the guard and returns from
\* the interrupt
IrqBody ==
    /\ cpu.irq = "body"
    /\ CallBody(cpu.icall)
    /\ cpu' = [cpu EXCEPT !.irq = "idle", !.inner = "free", !.icall = <<>>]
    /\ UNCHANGED <<pc, cr3_reg, map_call>>

NextInterrupt ==
    \/ \E c \in HeapCalls : MainCall(c)
    \/ MainLock
    \/ MainBody
    \/ \E c \in HeapCalls : Interrupt(c)
    \/ IrqLock
    \/ IrqSpin
    \/ IrqBody

SpecInterrupt == Init /\ [][NextInterrupt]_vars

\* every step that can be taken is taken at last: the CPU does not halt
FairSpecInterrupt == SpecInterrupt /\ WF_vars(NextInterrupt)

\* ------------------------------------------- p4_kernel_remap, by memory map
\* the end of low memory and the bounds of the areas that follow it: 0x9F000,
\* 0x9F800 (inside a frame), 0xA0000, 0xF0000, 0x100000
LowMemoryEnd == 651264

RemapAddresses == {LowMemoryEnd, 653312, 655360, 983040, 1048576}

\* the entry types of the second and of the third area
SecondTypes == {"Reserved", "AcpiNvs", "Kernel", "BadMemory", "Usable"}

ThirdTypes == {"Kernel", "BootloaderReclaimable", "AcpiReclaimable", "Usable"}

\* memory maps of a machine of 1 MiB, ordered and not overlapping: low memory,
\* then two areas of any type; and the map of the scenario
RemapMaps ==
    { <<Area(0, LowMemoryEnd, "Usable"), Area(a, b, t1), Area(c, d, t2)>> :
        <<a, b, c, d>> \in {q \in RemapAddresses \X RemapAddresses \X RemapAddresses
                                   \X RemapAddresses :
                              q[1] < q[2] /\ q[2] <= q[3] /\ q[3] < q[4]},
        t1 \in SecondTypes, t2 \in ThirdTypes }
    \cup {ScenarioMap}

\* before BitMapFrameAllocator::new on a map of RemapMaps
InitRemap ==
    /\ memory_map \in RemapMaps
    /\ frame_allocator = NoAllocator
    /\ fa_call = NoCall
    /\ panic = ""
    /\ p4_frame = NoFrame
    /\ tables = EmptyTable
    /\ heap_mem = EmptyTable
    /\ max_currently_used = 0
    /\ live = {}
    /\ hist = <<>>
    /\ scen = [step |-> 0, blocks |-> <<>>]
    /\ nallocs = 0
    /\ pc = "create_p4"
    /\ cr3_reg = NoFrame
    /\ map_call = NoMap
    /\ cpu = IdleCpu

\* the top-level table is created on the allocator new has built
RemapCreateP4 ==
    /\ fa_call.op = "new"
    /\ BootCreateP4

NextRemap ==
    \/ New
    \/ RemapCreateP4
    \/ BootWriteRecursive
    \/ BootKernelRemap

SpecRemap == InitRemap /\ [][NextRemap]_vars

\* ------------------------------------------------ heap, concurrent callers
\* Two processors call alloc and dealloc; no interrupt handler takes part.
\* A caller is idle, at self.inner.lock() ("lock"), inside its call with the
\* inner guard ("held"), or inside an iteration of the frame loop with the
\* frame allocator's guard as well ("frames").  What the call does to the
\* heap, the tables and the bitmap takes effect at its return; nobody else is
\* inside a call between the lock and the return.

\* the loop of "lock" leaving at once
AcquirableAlways(lock) == TRUE

\* spin::Mutex::lock leaves its loop once the lock is free
Acquirable(lock) == lock = "free"

\* iterations of the frame loop the call c is going to make
FramesAhead(c) ==
    IF c.op # "alloc" THEN 0
    ELSE LET size == NormSize(c.n)
             f == FindHole(heap_mem, SentinelAddr, NoPrevious, size,
                           Cardinality(DOMAIN heap_mem) + 1)
         IN IF f.found \/ max_currently_used + size >= MaxMemoryAmount THEN 0
            ELSE ceil_div_usize(max_currently_used + size, FRAME_SIZE)
                   - ceil_div_usize(max_currently_used, FRAME_SIZE)

\* cpu with the caller c moved to the record r
WithCaller(c, r) == [cpu EXCEPT !.callers[c] = r]

\* the caller c calls alloc or dealloc (of a block nobody else is freeing)
SmpCall(c, call) ==
    /\ panic = ""
    /\ cpu.callers[c].at = "idle"
    /\ cpu.calls < MaxSmpCalls
    /\ call.op = "dealloc"
       => \A d \in Callers : cpu.callers[d].call.op = "dealloc" => cpu.callers[d].call.b # call.b
    /\ cpu' = [WithCaller(c, [at |-> "lock", call |-> call, left |-> 0])
                 EXCEPT !.calls = @ + 1]
    /\ UNCHANGED <<frame_allocator, tables, p4_frame, memory_map, fa_call, heap_vars,
                   panic, pc, cr3_reg, map_call>>

\* self.inner.lock() of c succeeds
SmpLock(c) ==
    /\ panic = ""
    /\ cpu.callers[c].at = "lock"
    /\ Acquirable(cpu.inner)
    /\ cpu' = [WithCaller(c, [cpu.callers[c] EXCEPT !.at = "held",
                                                    !.left = FramesAhead(cpu.callers[c].call)])
                 EXCEPT !.inner = c]
    /\ UNCHANGED <<frame_allocator, tables, p4_frame, memory_map, fa_call, heap_vars,
                   panic, pc, cr3_reg, map_call>>

\* self.frame_allocator.lock() of c, at the top of an iteration, succeeds
SmpLockFrames(c) ==
    /\ panic = ""
    /\ cpu.callers[c].at = "held"
    /\ cpu.callers[c].left > 0
    /\ Acquirable(cpu.frames)
    /\ cpu' = [WithCaller(c, [cpu.callers[c] EXCEPT !.at = "frames"]) EXCEPT !.frames = c]
    /\ UNCHANGED <<frame_allocator, tables, p4_frame, memory_map, fa_call, heap_vars,
                   panic, pc, cr3_reg, map_call>>

\* c ends the iteration: the frame allocator's guard is dropped
SmpMapFrame(c) ==
    /\ panic = ""
    /\ cpu.callers[c].at = "frames"
    /\ cpu' = [WithCaller(c, [cpu.callers[c] EXCEPT !.at = "held", !.left = @ - 1])
                 EXCEPT !.frames = "free"]
    /\ UNCHANGED <<frame_allocator, tables, p4_frame, memory_map, fa_call, heap_vars,
                   panic, pc, cr3_reg, map_call>>

\* c returns from its call, the inner guard is dropped
SmpReturn(c) ==
    /\ cpu.callers[c].at = "held"
    /\ cpu.callers[c].left = 0
    /\ CallBody(cpu.callers[c].call)
    /\ cpu' = [WithCaller(c, [at |-> "idle", call |-> [op |-> "none", n |-> 0, b |-> <<>>],
                              left |-> 0])
                 EXCEPT !.inner = "free"]
    /\ UNCHANGED <<pc, cr3_reg, map_call>>

\* what a caller inside a call does next
SmpStep(c) == SmpLock(c) \/ SmpLockFrames(c) \/ SmpMapFrame(c) \/ SmpReturn(c)

NextSmp ==
    \/ \E c \in Callers, call \in HeapCalls : SmpCall(c, call)
    \/ \E c \in Callers : SmpLock(c)
    \/ \E c \in Callers : SmpLockFrames(c)
    \/ \E c \in Callers : SmpMapFrame(c)
    \/ \E c \in Callers : SmpReturn(c)

SpecSmp == Init /\ [][NextSmp]_vars

\* every processor goes on running
FairSpecSmp == SpecSmp /\ \A c \in Callers : WF_vars(SmpStep(c))

\* ------------------------------------------------------------ heap claims
LastCall == hist[Len(hist)]

\* heap page i (virtual_start_frame + i) has a present, writable p1 entry
HeapPageMapped(tbls, cr3, i) ==
    LET e == P1Entry(tbls, cr3, PageAdd(virtual_start_frame, i))
    IN e.found /\ {"PRESENT", "WRITABLE"} \subseteq e.entry.flags

\* C1 (as claimed): when dealloc(p, L) directly follows the alloc(L) that
\* returned p by splitting a hole, the hole list is again what it was before
\* that alloc.  (After an alloc served by extending the heap the freed block
\* is a hole that was not there before.)
C1_RoundTripRestoresHoles ==
    ( /\ Len(hist) >= 2
      /\ LastCall.op = "dealloc"
      /\ hist[Len(hist) - 1].op = "alloc"
      /\ hist[Len(hist) - 1].kind = "split"
      /\ hist[Len(hist) - 1].ptr = LastCall.ptr )
    => HoleList(heap_mem) = hist[Len(hist) - 1].before

\* C2 (as claimed): p1 = alloc(n); dealloc(p1, n); p2 = alloc(n) gives p2 = p1
C2_FreedBlockReused ==
    ( /\ Len(hist) = 3
      /\ hist[1].op = "alloc" /\ hist[2].op = "dealloc" /\ hist[3].op = "alloc"
      /\ hist[2].ptr = hist[1].ptr
      /\ hist[3].n = hist[1].n )
    => hist[3].ptr = hist[1].ptr

\* C3 (as claimed): a pointer p returned by alloc(n) lies in the heap range
\* with its max(n, H) bytes, and every page the block overlaps is mapped
\* present and writable
C3_ReturnedBlockMapped ==
    (panic = "" /\ Len(hist) >= 1 /\ LastCall.op = "alloc")
    => LET p == LastCall.ptr
           size == NormSize(LastCall.n)
       IN /\ HEAP_OFFSET <= p
          /\ p + size <= HEAP_OFFSET + MaxMemoryAmount
          /\ \A i \in ((p - HEAP_OFFSET) \div FRAME_SIZE) ..
                      ((p + size - 1 - HEAP_OFFSET) \div FRAME_SIZE) :
                HeapPageMapped(tables, p4_frame, i)

\* C4 (as claimed): consecutive holes are in address order and do not abut:
\* prev.address + prev.hole_size < next.address
C4_HolesSortedCoalesced ==
    LET holes == HoleList(heap_mem)
    IN \A k \in 1 .. (Len(holes) - 1) :
          holes[k].address + holes[k].hole_size < holes[k + 1].address

\* C5: three adjacent 256-byte blocks A < B < C from three allocs on a fresh
\* heap, freed in the order A, B, C, leave exactly one hole: at A, of size
\* 768, with is_last set
C5_CoalesceInAddressOrder ==
    scen.step = 6
    => /\ scen.blocks[2] = scen.blocks[1] + 256
       /\ scen.blocks[3] = scen.blocks[2] + 256
       /\ HoleList(heap_mem) =
             <<[address |-> scen.blocks[1], hole_size |-> 768, is_last |-> TRUE]>>

C5_Witness == scen.step = 6

\* C6: max_currently_used never decreases; between allocator calls every page
\* virtual_start_frame + i, i < ceil(max_currently_used / 4096), is mapped; a
\* dealloc changes neither max_currently_used nor any mapping
C6_HeapGrowth ==
    [][ /\ max_currently_used' >= max_currently_used
        /\ panic' = "" =>
              \A i \in 0 .. ((max_currently_used' + FRAME_SIZE - 1) \div FRAME_SIZE - 1) :
                 HeapPageMapped(tables', p4_frame', i)
        /\ (\E b \in live : Dealloc(b)) =>
              /\ max_currently_used' = max_currently_used
              /\ tables' = tables ]_vars

\* two heap pages are in use and a block has been freed since
C6_Witness ==
    /\ panic = ""
    /\ max_currently_used > FRAME_SIZE
    /\ Len(hist) >= 1
    /\ LastCall.op = "dealloc"

\* ------------------------------------------------- frame allocator claims
\* the frames of the machine whose bit is clear
FreeFrames(fa) == {f \in 0 .. (fa.frames_amount - 1) : FrameBit(fa, f) = 0}

\* the frames that have a bit in the slice
SliceFrames(fa) == 0 .. (8 * fa.bitmap_size_in_bytes - 1)

\* every bit but that of frame f is the same in fa and fb
OtherBitsKept(fa, fb, f) ==
    \A g \in SliceFrames(fa) \ {f} : FrameBit(fb, g) = FrameBit(fa, g)

\* C7: allocate_frame returns the lowest-numbered frame below frames_amount
\* whose bit is clear; when there is none it returns None and leaves the
\* bitmap as it was
C7_LowestFreeFrame ==
    [][ AllocateFrame =>
          LET free == FreeFrames(frame_allocator)
          IN IF free # {}
             THEN fa_call'.frame = CHOOSE f \in free : \A g \in free : f <= g
             ELSE /\ fa_call'.frame = NoFrame
                  /\ frame_allocator' = frame_allocator ]_vars

\* allocate_frame skipped a full first byte and found a frame in the second
C7_Witness == fa_call.op = "allocate_frame" /\ fa_call.frame >= 8

\* C8: the frame allocate_frame returns has its bit set afterwards, the frame
\* handed to deallocate_frame has its bit clear afterwards, and either call
\* keeps the bit of every other frame
C8_FrameMarking ==
    [][ /\ (AllocateFrame /\ fa_call'.frame # NoFrame) =>
              /\ FrameBit(frame_allocator', fa_call'.frame) = 1
              /\ OtherBitsKept(frame_allocator, frame_allocator', fa_call'.frame)
        /\ (fa_call'.op = "deallocate_frame" /\ panic' = "") =>
              /\ FrameBit(frame_allocator', fa_call'.frame) = 0
              /\ OtherBitsKept(frame_allocator, frame_allocator', fa_call'.frame) ]_vars

\* allocate_frame returned the frame that the call before it deallocated
C8_Witness == fa_call.op = "allocate_frame" /\ fa_call.again

\* the frames a region [start, end) intersects
RegionFrames(start, end) ==
    (start \div FRAME_SIZE) .. ((end + FRAME_SIZE - 1) \div FRAME_SIZE - 1)

\* the frames new has to reserve: those of non-Usable areas and of the gaps
ReservedFrames(mm) ==
    UNION ( {RegionFrames(mm[k].start, mm[k].end) :
                k \in {j \in 1 .. Len(mm) : mm[j].type # "Usable"}}
            \cup {RegionFrames(mm[k].end, mm[k + 1].start) : k \in 1 .. (Len(mm) - 1)} )

\* C9 (as claimed): for a map in order of start address new completes (unless
\* no Usable area can hold the bitmap, where it is documented to fail) and
\* every frame of a non-Usable area or of a gap has its bit set
C9_NonUsableAndGapsMarked ==
    ( /\ fa_call.op = "new"
      /\ panic # "Could not find sufficiently big memory region to allocate bitmap." )
    => /\ panic = ""
       /\ \A f \in ReservedFrames(memory_map) :
             /\ f \in SliceFrames(frame_allocator)
             /\ FrameBit(frame_allocator, f) = 1

\* the frames holding the bitmap
BitmapFrames(fa) == fa.bitmap_frame .. (fa.bitmap_frame + fa.bitmap_size_in_frames - 1)

\* C10 (as claimed): for the scenario map the bitmap is placed at frame 0x100,
\* frames 0..0xA0 are free, frames 0xA0..0x100 and the bitmap's frames are
\* marked allocated
C10_ScenarioAsClaimed ==
    (memory_map = ScenarioMap /\ fa_call.op = "new")
    => /\ panic = ""
       /\ frame_allocator.bitmap_frame = 256
       /\ \A f \in 0 .. 159 : FrameBit(frame_allocator, f) = 0
       /\ \A f \in 160 .. 255 : FrameBit(frame_allocator, f) = 1
       /\ \A f \in BitmapFrames(frame_allocator) : FrameBit(frame_allocator, f) = 1

\* C10 (amended): for the scenario map the bitmap is placed at frame 0, the
\* start of the first Usable area; frames 1..0xA0 are free; frames 0xA0..0x100
\* and the bitmap's one frame, frame 0, are marked allocated
C10_ScenarioBitmapAtFrameZero ==
    (memory_map = ScenarioMap /\ fa_call.op = "new")
    => /\ panic = ""
       /\ frame_allocator.bitmap_frame = 0
       /\ frame_allocator.bitmap_size_in_frames = 1
       /\ \A f \in 1 .. 159 : FrameBit(frame_allocator, f) = 0
       /\ \A f \in 160 .. 255 : FrameBit(frame_allocator, f) = 1
       /\ \A f \in BitmapFrames(frame_allocator) : FrameBit(frame_allocator, f) = 1

C10_Witness == memory_map = ScenarioMap /\ fa_call.op = "new" /\ panic = ""

\* C11 (as claimed): on the allocator just built from the scenario map the
\* first allocate_frame returns frame 0
C11_FirstFrameAsClaimed ==
    (memory_map = ScenarioMap /\ fa_call.op = "allocate_frame") => fa_call.frame = 0

\* C11 (amended): on the allocator just built from the scenario map the first
\* allocate_frame returns frame 1 (address 0x1000): frame 0 holds the bitmap
\* and is marked allocated, frame 1 is the lowest free frame
C11_FirstFrameIsOne ==
    (memory_map = ScenarioMap /\ fa_call.op = "allocate_frame")
    => /\ panic = ""
       /\ fa_call.frame = 1
       /\ FrameBit(frame_allocator, 1) = 1

C11_Witness ==
    memory_map = ScenarioMap /\ fa_call.op = "allocate_frame" /\ panic = ""

\* ------------------------------------------------------ page table claims
\* the frame of the table reached from the table in frame root by following
\* the entries of the first k indices of page
PathTable(tbls, root, page, k) ==
    IF k = 0 THEN root
    ELSE IF k = 1 THEN WalkLevel(tbls, root, page[1])
    ELSE IF k = 2 THEN WalkLevel(tbls, WalkLevel(tbls, root, page[1]), page[2])
    ELSE WalkLevel(tbls, WalkLevel(tbls, WalkLevel(tbls, root, page[1]), page[2]), page[3])

\* the step is a call of p4_map
IsMapCall == map_call'.n = map_call.n + 1

\* C12: p4_map of a page whose p1 entry is used, with allow_overwrite = false,
\* panics and leaves every table entry and the frame bitmap as they were
C12_NoOverwriteWithoutConsent ==
    [][ ( /\ IsMapCall
          /\ ~map_call'.allow_overwrite
          /\ P1Entry(tables, p4_frame, map_call'.page).found )
        => /\ panic' = "Tried to perform unauthorized entry overwrite."
           /\ tables' = tables
           /\ frame_allocator' = frame_allocator ]_vars

\* in Recursive mode a second p4_map of a page, with another frame and
\* allow_overwrite = false, has failed and the page is still mapped to the first
C12_Witness ==
    /\ panic = "Tried to perform unauthorized entry overwrite."
    /\ map_call.access = "Recursive"
    /\ P1Entry(tables, p4_frame, map_call.page).found
    /\ P1Entry(tables, p4_frame, map_call.page).entry.address # map_call.frame * FRAME_SIZE

\* entry number k of the walk for page (k = 1 in the top-level table, 3 in the
\* table of level 2) did not exist before the step
CreatedOnTheWay(page, k) ==
    LET t == PathTable(tables', p4_frame, page, k - 1)
    IN t \notin DOMAIN tables \/ page[k] \notin DOMAIN tables[t]

\* C19: after a p4_map that returns, the walk from the top-level table through
\* the page's four indices reaches a p1 entry with the frame's address and the
\* flags plus PRESENT; every entry created on the way holds PRESENT|WRITABLE
\* and points to a table that holds nothing but the entry the walk takes next
C19_ResultOfMap ==
    [][ (IsMapCall /\ panic' = "")
        => LET c == map_call'
               e == P1Entry(tables', p4_frame, c.page)
           IN /\ e.found
              /\ e.entry.address = c.frame * 4096
              /\ e.entry.flags = c.flags \cup {"PRESENT"}
              /\ \A k \in 1..3 :
                    CreatedOnTheWay(c.page, k)
                    => LET t == PathTable(tables', p4_frame, c.page, k - 1)
                           n == PathTable(tables', p4_frame, c.page, k)
                       IN /\ tables'[t][c.page[k]].flags = {"PRESENT", "WRITABLE"}
                          /\ n \in DOMAIN tables'
                          /\ DOMAIN tables'[n] = {c.page[k + 1]} ]_vars

\* a p4_map in Recursive mode, called without PRESENT, has returned and the
\* level-1 table it created holds the new entry alone
C19_Witness ==
    /\ panic = ""
    /\ map_call.access = "Recursive"
    /\ "PRESENT" \notin map_call.flags
    /\ P1Entry(tables, p4_frame, map_call.page).found
    /\ P1Entry(tables, p4_frame, map_call.page).entry.address = map_call.frame * 4096
    /\ DOMAIN tables[PathTable(tables, p4_frame, map_call.page, 3)] = {map_call.page[4]}

\* ------------------------------------------------ heap structure claims
\* the bytes [a, a + n) and [b, b + m) have none in common
Disjoint(a, n, b, m) == a + n <= b \/ b + m <= a

\* C16: the sentinel keeps hole_size = 0 through every alloc and dealloc, no
\* block handed out or live covers it, and no other node is written over it
C16_SentinelProtected ==
    /\ SentinelAddr \in DOMAIN heap_mem
    /\ heap_mem[SentinelAddr].hole_size = 0
    /\ \A b \in live : Disjoint(b.ptr, NormSize(b.n), SentinelAddr, 17)
    /\ \A i \in 1 .. Len(hist) :
          hist[i].op = "alloc" => Disjoint(hist[i].ptr, NormSize(hist[i].n), SentinelAddr, 17)
    /\ \A a \in DOMAIN heap_mem \ {SentinelAddr} : Disjoint(a, 17, SentinelAddr, 17)

\* alloc has taken the hole that follows the sentinel, and the block was
\* freed again by a dealloc that walked past the sentinel
C16_Witness ==
    /\ panic = ""
    /\ Len(hist) = 3
    /\ hist[2].op = "alloc" /\ hist[2].kind = "split"
    /\ hist[3].op = "dealloc" /\ hist[3].ptr = hist[2].ptr
    /\ ~heap_mem[SentinelAddr].is_last

\* no hole that the walk from the sentinel visits in mem covers a byte of a
\* block of blocks
HolesClearOf(mem, blocks) ==
    LET holes == HoleList(mem)
    IN \A i \in 1 .. Len(holes) : \A b \in blocks :
          holes[i].hole_size > 0
          => Disjoint(holes[i].address, holes[i].hole_size, b.ptr, NormSize(b.n))

\* C17: the block an alloc returns shares no byte with a block that is live
\* at that moment, and after every call no hole of the list covers a byte of
\* a live block
C17_NoOverlappingAllocations ==
    [][ /\ (nallocs' = nallocs + 1 /\ panic' = "" /\ hist' # hist)
           => LET c == hist'[Len(hist')]
              IN \A b \in live : Disjoint(c.ptr, NormSize(c.n), b.ptr, NormSize(b.n))
        /\ panic' = "" => HolesClearOf(heap_mem', live') ]_vars

\* alloc has cut a block from a hole while two other blocks were live, and
\* the list still holds a hole
C17_Witness ==
    /\ panic = ""
    /\ Len(hist) > 0
    /\ LastCall.op = "alloc" /\ LastCall.kind = "split"
    /\ Cardinality(live) >= 3
    /\ \E i \in 1 .. Len(HoleList(heap_mem)) : HoleList(heap_mem)[i].hole_size > 0

\* C18 (as claimed): the walk from the sentinel along next_node ends at a
\* node with is_last set, every node it visits after the sentinel lies inside
\* the mapped heap range, and no node with is_last = false has next_node = 0
\* or the address of a place that holds no node
C18_HoleListWellFormed ==
    panic = ""
    => LET nodes == HolesFrom(heap_mem, SentinelAddr, Cardinality(DOMAIN heap_mem) + 1)
           mapped_end == 1048576 + 4096 * ((max_currently_used + 4095) \div 4096)
       IN /\ nodes[Len(nodes)].is_last
          /\ \A i \in 1 .. Len(nodes) :
                /\ nodes[i].address \in DOMAIN heap_mem
                /\ ~heap_mem[nodes[i].address].is_last
                   => /\ heap_mem[nodes[i].address].next_node # 0
                      /\ heap_mem[nodes[i].address].next_node \in DOMAIN heap_mem
                /\ i > 1 => /\ nodes[i].address >= 1048576
                            /\ nodes[i].address + 17 <= mapped_end

\* ------------------------------------------------- heap extension claim
\* the step is an alloc that returned
AllocReturned == nallocs' = nallocs + 1 /\ panic' = "" /\ hist' # hist

\* the walk from the sentinel in mem visits only nodes the allocator wrote,
\* none of them a hole of request + H bytes or more
NoHoleFits(mem, request) ==
    LET holes == HoleList(mem)
    IN \A i \in 1 .. Len(holes) :
          holes[i].hole_size >= 0 /\ holes[i].hole_size < request + 17

\* C20: an alloc(n) that finds no hole of request + H bytes (request = max(n, H))
\* and has old + request < max_memory_amount returns HEAP_OFFSET + old, sets
\* max_currently_used to old + request, maps exactly the heap pages
\* ceil(old / 4096) .. ceil((old + request) / 4096) - 1, each to a frame that
\* was free before and is taken afterwards, and changes no node of the list
C20_HeapExtension ==
    [][ AllocReturned
        => LET c == hist'[Len(hist')]
               old == max_currently_used
               request == IF c.n < 17 THEN 17 ELSE c.n
               first == (old + 4095) \div 4096
               last == (old + request + 4095) \div 4096
           IN /\ NoHoleFits(heap_mem, request) => c.kind = "extend"
              /\ c.kind = "extend"
                 => /\ old + request < MaxMemoryAmount
                    /\ c.ptr = 1048576 + old
                    /\ max_currently_used' = old + request
                    /\ \A a \in DOMAIN heap_mem :
                          a \in DOMAIN heap_mem' /\ heap_mem'[a] = heap_mem[a]
                    /\ \A i \in 0 .. (MaxMemoryAmount \div 4096) :
                          LET page == PageAdd(virtual_start_frame, i)
                              before == P1Entry(tables, p4_frame, page)
                              after == P1Entry(tables', p4_frame, page)
                              f == after.entry.address \div 4096
                          IN IF i >= first /\ i < last
                             THEN /\ ~before.found
                                  /\ after.found
                                  /\ after.entry.flags = {"PRESENT", "WRITABLE"}
                                  /\ FrameBit(frame_allocator, f) = 0
                                  /\ FrameBit(frame_allocator', f) = 1
                                  /\ f \notin DOMAIN tables'
                             ELSE after = before ]_vars

\* C20, the fresh heap: alloc(8) returns HEAP_OFFSET, maps heap page 0 alone
\* and leaves max_currently_used = 17
C20_FreshHeap ==
    [][ (AllocReturned /\ max_currently_used = 0 /\ hist'[Len(hist')].n = 8)
        => /\ hist'[Len(hist')].ptr = 1048576
           /\ max_currently_used' = 17
           /\ HeapPageMapped(tables', p4_frame, 0)
           /\ ~HeapPageMapped(tables', p4_frame, 1) ]_vars

C13_RecursiveEntryKept ==
    pc \notin {"mark_vga", "create_p4", "recursive"}
    => /\ p4_frame \in DOMAIN tables
       /\ 511 \in DOMAIN tables[p4_frame]
       /\ tables[p4_frame][511] =
             [address |-> p4_frame * 4096, flags |-> {"PRESENT", "WRITABLE"}]

\* kernel_main has come to its allocation tests and two allocs have mapped
\* the second heap page
C13_Witness ==
    /\ pc = "tests"
    /\ panic = ""
    /\ nallocs >= 2
    /\ HeapPageMapped(tables, p4_frame, 1)

\* the frames of the Kernel areas of the map mm
KernelFrames(mm) ==
    UNION { {f \in 0 .. ((mm[k].end + 4095) \div 4096 - 1) : f >= mm[k].start \div 4096}
            : k \in {j \in 1 .. Len(mm) : mm[j].type = "Kernel"} }

\* C14: CR3 holds the new top-level table only once entry 511 is written and
\* the bitmap's frames, the VGA page and every frame of a Kernel area are
\* mapped in it; the heap allocator exists and is used only once CR3 holds it
C14_BootOrdering ==
    /\ cr3_reg # NoFrame
       => /\ cr3_reg = p4_frame
          /\ 511 \in DOMAIN tables[p4_frame]
          /\ tables[p4_frame][511].address = p4_frame * 4096
          /\ \A f \in frame_allocator.bitmap_frame ..
                      (frame_allocator.bitmap_frame
                         + frame_allocator.bitmap_size_in_frames - 1) :
                Translate(tables, p4_frame, PageOfNumber(f)) = f
          /\ Translate(tables, p4_frame, <<0, 0, 0, 184>>) = 184
          /\ \A f \in KernelFrames(memory_map) :
                Translate(tables, p4_frame, PageAdd(<<511, 510, 0, 0>>, f)) = f
    /\ (heap_mem # EmptyTable \/ nallocs > 0 \/ live # {})
       => cr3_reg # NoFrame /\ cr3_reg = p4_frame

\* the heap is in use under the new tables, the kernel of three frames mapped
C14_Witness ==
    /\ panic = ""
    /\ cr3_reg = p4_frame
    /\ Cardinality(KernelFrames(memory_map)) = 3
    /\ live # {}

\* ------------------------------------------------------- interrupt claim
\* C15 (as claimed): a handler that calls alloc or dealloc never waits for a
\* lock that the code it interrupted holds, so that its call can return
C15_HandlerNeverWaitsForInterruptedCode ==
    ~(cpu.irq = "lock" /\ cpu.inner = "main")

\* the same as a property of whole runs: a handler that has called alloc or
\* dealloc returns from its call in the end
HandlerCallReturns == (cpu.irq = "lock") ~> (cpu.irq = "idle" \/ panic # "")

\* ------------------------------------------------------- first fit claim
\* the indices of the holes of the list of mem with room for request bytes
\* and the node of the remainder
Fits(mem, request) ==
    {i \in 1 .. Len(HoleList(mem)) : HoleList(mem)[i].hole_size >= request + 17}

\* the least element of a non-empty set of numbers
Least(S) == CHOOSE i \in S : \A j \in S : i <= j

\* C21: when a hole of the list has hole_size >= request + H, alloc(n) returns
\* the address a of the first such hole in list order, puts at a + request a
\* node with hole_size less request and the same is_last and next_node, sets
\* the predecessor's next_node to a + request and leaves max_currently_used,
\* the page tables and the bitmap alone; a hole it takes from the list never
\* has hole_size < request + H
C21_FirstFitWithSplit ==
    [][ AllocReturned
        => LET c == hist'[Len(hist')]
               request == IF c.n < 17 THEN 17 ELSE c.n
               holes == HoleList(heap_mem)
               fits == Fits(heap_mem, request)
           IN /\ fits # {}
                 => LET k == Least(fits)
                        a == holes[k].address
                        pred == IF k = 1 THEN SentinelAddr ELSE holes[k - 1].address
                    IN /\ c.kind = "split"
                       /\ c.ptr = a
                       /\ a + request \in DOMAIN heap_mem'
                       /\ heap_mem'[a + request].hole_size = heap_mem[a].hole_size - request
                       /\ heap_mem'[a + request].is_last = heap_mem[a].is_last
                       /\ heap_mem'[a + request].next_node = heap_mem[a].next_node
                       /\ heap_mem'[pred].next_node = a + request
                       /\ max_currently_used' = max_currently_used
                       /\ tables' = tables
                       /\ frame_allocator' = frame_allocator
              /\ (c.kind = "split" /\ c.ptr \in DOMAIN heap_mem)
                 => heap_mem[c.ptr].hole_size >= request + 17 ]_vars

\* alloc has passed a hole too small for it and cut its block from a later one
C21_Witness ==
    /\ panic = ""
    /\ Len(hist) > 0
    /\ LastCall.op = "alloc" /\ LastCall.kind = "split"
    /\ Len(LastCall.before) >= 2
    /\ LastCall.before[1].address # LastCall.ptr
    /\ LastCall.before[1].hole_size >= NormSize(LastCall.n)

\* ----------------------------------------------------------- remap claims
\* the frames [start / 4096, ceil(end / 4096)) of the areas of mm whose type
\* is in types
FramesOfTypes(mm, types) ==
    UNION { {f \in 0 .. ((mm[k].end + 4095) \div 4096 - 1) : f >= mm[k].start \div 4096}
            : k \in {j \in 1 .. Len(mm) : mm[j].type \in types} }

\* p4_kernel_remap has returned
RemapReturned == pc = "write_cr3" /\ panic = ""

\* page is mapped to frame f with exactly PRESENT|WRITABLE
MappedTo(page, f) ==
    /\ P1Entry(tables, p4_frame, page).found
    /\ P1Entry(tables, p4_frame, page).entry =
          [address |-> f * 4096, flags |-> {"PRESENT", "WRITABLE"}]

\* C22: after p4_kernel_remap has returned, every frame f of a Reserved,
\* AcpiReclaimable, AcpiNvs or BootloaderReclaimable area is mapped at page f
\* and every frame f of a Kernel area at page f + KERNEL_OFFSET / 4096, with
\* PRESENT|WRITABLE; the only other mapped pages are those of the bitmap's
\* frames and the VGA page 0xB8, none stands for a Usable or BadMemory area
C22_RemapSelection ==
    RemapReturned
    => LET identity == FramesOfTypes(memory_map, {"Reserved", "AcpiReclaimable",
                                                  "AcpiNvs", "BootloaderReclaimable"})
           kernel == FramesOfTypes(memory_map, {"Kernel"})
           bitmap == frame_allocator.bitmap_frame ..
                       (frame_allocator.bitmap_frame
                          + frame_allocator.bitmap_size_in_frames - 1)
       IN \A f \in 0 .. (frame_allocator.frames_amount + 1) :
             /\ IF f \in identity \cup bitmap \cup {184}
                THEN MappedTo(<<0, 0, f \div 512, f % 512>>, f)
                ELSE ~P1Entry(tables, p4_frame, <<0, 0, f \div 512, f % 512>>).found
             /\ IF f \in kernel
                THEN MappedTo(<<511, 510, f \div 512, f % 512>>, f)
                ELSE ~P1Entry(tables, p4_frame, <<511, 510, f \div 512, f % 512>>).found

\* the remap has returned on a map with a Kernel area, an area mapped at its
\* own addresses and no area that stands for memory to map around them
C22_Witness ==
    /\ RemapReturned
    /\ FramesOfTypes(memory_map, {"Kernel"}) # {}
    /\ FramesOfTypes(memory_map, {"AcpiNvs"}) # {}

\* C23 (as claimed): on every ordered map without overlaps, the scenario's
\* with its Reserved area over 0xB8000 among them, p4_kernel_remap returns
\* without the failure of an unauthorized overwrite
C23_RemapCompletes ==
    panic # "Tried to perform unauthorized entry overwrite."

\* ------------------------------------------------------ mark_frame claims
\* C25 (as claimed): mark_frame(f, allocated) with f > memory_end / 4096
\* panics and changes no bit; with f <= memory_end / 4096 it returns and sets
\* or clears bit f mod 8 of byte f div 8, and no other bit
C25_MarkFrameBoundsCheck ==
    [][ NextMark =>
          LET f == fa_call'.frame
              allocated == fa_call'.again
          IN IF f > frame_allocator.memory_end \div FRAME_SIZE
             THEN panic' # "" /\ frame_allocator' = frame_allocator
             ELSE /\ panic' = ""
                  /\ FrameBit(frame_allocator', f) = (IF allocated THEN 1 ELSE 0)
                  /\ OtherBitsKept(frame_allocator, frame_allocator', f) ]_vars

\* C26 (as claimed): once kernel_main has passed "Marking VGA framebuffer as
\* allocated", on every memory map the bit of the frame that holds 0xB8000
\* (frame 0xB8) is set, so that allocate_frame never returns it
C26_VgaFrameReserved ==
    (pc # "mark_vga" /\ panic = "") => FrameBit(frame_allocator, VGA_ADDRESS \div FRAME_SIZE) = 1

\* ------------------------------------------------ frame exclusivity claim
\* the frames behind the mapped heap pages
HeapFrames ==
    { P1Entry(tables, p4_frame, PageAdd(virtual_start_frame, i)).entry.address \div FRAME_SIZE
      : i \in {j \in 0 .. (MaxMemoryAmount \div FRAME_SIZE + 1) :
                 P1Entry(tables, p4_frame, PageAdd(virtual_start_frame, j)).found} }

\* the frames allocate_frame has returned: the page tables and the heap's
AllocatedFrames == DOMAIN tables \cup HeapFrames

\* the table entries that point at frame f, the recursive entry left out
EntriesTo(f) ==
    UNION { { <<t, i>> : i \in {j \in DOMAIN tables[t] :
                                  /\ tables[t][j].address = f * FRAME_SIZE
                                  /\ <<t, j>> # <<p4_frame, RECURSIVE_INDEX>>} }
            : t \in DOMAIN tables }

\* C27: through construction, kernel remap and heap allocs the frames
\* allocate_frame returns are pairwise distinct, none holds the bitmap or
\* intersects a non-Usable area or a gap; so every allocated frame is entered
\* in the tables once (the top-level table by its recursive entry alone), no
\* frame backs two heap pages and none is both a page table and a heap page
C27_FrameExclusivity ==
    p4_frame # NoFrame
    => /\ \A f \in AllocatedFrames :
             /\ f \notin BitmapFrames(frame_allocator)
             /\ f \notin ReservedFrames(memory_map)
             /\ FrameBit(frame_allocator, f) = 1
             /\ Cardinality(EntriesTo(f)) = (IF f = p4_frame THEN 0 ELSE 1)
       /\ HeapFrames \cap DOMAIN tables = {}
       /\ Cardinality(HeapFrames) =
            Cardinality({j \in 0 .. (MaxMemoryAmount \div FRAME_SIZE + 1) :
                           P1Entry(tables, p4_frame, PageAdd(virtual_start_frame, j)).found})

\* two heap pages are mapped on the map whose Reserved area lies right above
\* the bitmap, with frames allocated on both sides of that area
C27_Witness ==
    /\ panic = ""
    /\ Cardinality(HeapFrames) >= 2
    /\ \E f \in ReservedFrames(memory_map) :
          /\ (\E g \in AllocatedFrames : g < f)
          /\ (\E g \in AllocatedFrames : g > f /\ g < 159)

\* ------------------------------------------------------- locking claim
\* C24: with two callers of alloc and dealloc, the frame allocator's lock is
\* requested and held only by the caller that holds the inner lock and is
\* released before the inner lock is, the inner lock is never requested by a
\* caller holding the frame allocator's lock, at most one caller at a time is
\* inside a call (where the hole list, the tables and the bitmap are read and
\* written), and under fair scheduling every call returns unless the kernel
\* has panicked
C24_LockDiscipline ==
    /\ [](\A c \in Callers :
            /\ (cpu.callers[c].at = "frames" \/ cpu.frames = c) => cpu.inner = c
            /\ (cpu.callers[c].at = "held" /\ cpu.callers[c].left > 0) => cpu.inner = c
            /\ cpu.callers[c].at = "lock" => (cpu.frames # c /\ cpu.inner # c)
            /\ cpu.callers[c].at \in {"held", "frames"} <=> cpu.inner = c
            /\ cpu.callers[c].at = "frames" <=> cpu.frames = c)
    /\ [](Cardinality({c \in Callers : cpu.callers[c].at \in {"held", "frames"}}) <= 1)
    /\ [][\A c \in Callers : (cpu.inner = c /\ cpu.inner' # c) => cpu.frames # c]_vars
    /\ \A c \in Callers :
          (cpu.callers[c].at = "lock") ~> (cpu.callers[c].at = "idle" \/ panic # "")

\* one caller is in the frame loop with both locks while the other waits for
\* the inner lock
C24_Witness ==
    /\ cpu.callers["first"].at = "frames"
    /\ cpu.frames = "first" /\ cpu.inner = "first"
    /\ cpu.callers["second"].at = "lock"

====
